---- MODULE Spec2Model ----
(***************************************************************************)
(* Product catalog service: the Product aggregate (state machine, change   *)
(* tracking, pending domain events), the write usecases that follow the    *)
(* Golden Mutation Pattern (load, mutate, build a commit plan of one       *)
(* aggregate write plus one outbox insert per pending event, apply the     *)
(* plan atomically), and the persisted products / outbox_events tables.    *)
(***************************************************************************)
EXTENDS Integers, Sequences, FiniteSets, TLC

\* ------------------------------------------------------------------------
\* Bounds of the model
\* ------------------------------------------------------------------------
\* Largest clock reading; the clock starts at 0 and only moves forward.
MaxTime == 1
\* Largest number of rows the outbox_events table may hold.
MaxOutbox == 4
\* Largest number of pending events one aggregate instance may accumulate
\* when its methods are called directly (DomainSpec).
MaxEvents == 3

Times == 0..MaxTime

\* Optional values (Go nil pointers, NULL columns).
Nil == <<>>
Some(x) == <<x>>
IsSome(o) == Len(o) = 1
Get(o) == o[1]

\* ------------------------------------------------------------------------
\* math/big.Rat as used by Money and Discount: a pair <<num, den>> kept in
\* lowest terms with den > 0.
\* ------------------------------------------------------------------------
Abs(x) == IF x < 0 THEN -x ELSE x

RECURSIVE GCD(_, _)
GCD(a, b) == IF b = 0 THEN a ELSE GCD(b, a % b)

\* big.NewRat(a, b), b # 0 (b = 0 panics, see the callers).
NewRat(a, b) ==
    LET g == GCD(Abs(a), Abs(b))
        s == IF b < 0 THEN -1 ELSE 1
    IN  <<(s * a) \div g, (s * b) \div g>>

\* (*big.Rat).Cmp
RatCmp(x, y) ==
    LET l == x[1] * y[2]
        r == y[1] * x[2]
    IN  IF l < r THEN -1 ELSE IF l > r THEN 1 ELSE 0

\* (*big.Rat).String: "num/den"; modelled as the pair of integers printed.
RatString(r) == <<r[1], r[2]>>

\* (*big.Rat).SetString on a "num/den" string: parses and normalises; not ok
\* when the denominator is zero.
RatSetStringOk(s) == s[2] # 0
RatSetString(s) == NewRat(s[1], s[2])

\* ------------------------------------------------------------------------
\* domain: status and field names
\* ------------------------------------------------------------------------
ProductStatusActive == "active"
ProductStatusInactive == "inactive"
ProductStatusArchived == "archived"

FieldName == "name"
FieldDescription == "description"
FieldCategory == "category"
FieldBasePrice == "base_price"
FieldDiscount == "discount"
FieldStatus == "status"
FieldArchivedAt == "archived_at"

ErrNone == "ok"
ErrProductNotActive == "product not active"
ErrInvalidDiscountPeriod == "invalid discount period"
ErrInvalidDiscount == "discount percentage must be between 0 and 1"
ErrInvalidDenominator == "money denominator must be > 0"
ErrNotFound == "product not found"
ErrCommitFailed == "commit failed"
ErrPanic == "panic: division by zero"

\* ------------------------------------------------------------------------
\* domain.Money
\* ------------------------------------------------------------------------
NewMoneyFromFractionOk(numerator, denominator) == denominator > 0

\* A faulty NewMoneyFromFraction: the pair is kept as passed.
NewMoneyFromFractionRaw(numerator, denominator) == <<numerator, denominator>>

NewMoneyFromFraction(numerator, denominator) == NewRat(numerator, denominator)

\* Money.Fraction
Fraction(m) == <<m[1], m[2]>>

\* ------------------------------------------------------------------------
\* domain.Discount
\* ------------------------------------------------------------------------
\* NewDiscount: the error it returns (ErrNone on success).
\* A faulty NewDiscount: the period is not checked.
NewDiscountErrNoPeriod(percentage, start, end) ==
    IF RatCmp(percentage, <<0, 1>>) < 0 \/ RatCmp(percentage, <<1, 1>>) > 0
    THEN ErrInvalidDiscount
    ELSE ErrNone

\* A faulty NewDiscount: the bounds 0 and 1 themselves are rejected.
NewDiscountErrExclusive(percentage, start, end) ==
    IF RatCmp(percentage, <<0, 1>>) <= 0 \/ RatCmp(percentage, <<1, 1>>) >= 0
    THEN ErrInvalidDiscount
    ELSE IF end < start THEN ErrInvalidDiscountPeriod
    ELSE ErrNone

NewDiscountErr(percentage, start, end) ==
    IF RatCmp(percentage, <<0, 1>>) < 0 \/ RatCmp(percentage, <<1, 1>>) > 0
    THEN ErrInvalidDiscount
    ELSE IF end < start THEN ErrInvalidDiscountPeriod
    ELSE ErrNone

NewDiscount(percentage, start, end) ==
    [percentage |-> percentage, startAt |-> start, endAt |-> end]


\* A faulty IsValidAt: the end of the window is excluded.
IsValidAtEndExcluded(d, t) ==
    IF ~IsSome(d) THEN FALSE
    ELSE IF t < Get(d).startAt THEN FALSE
    ELSE IF t >= Get(d).endAt THEN FALSE
    ELSE TRUE

\* Discount.IsValidAt on an optional discount (nil receiver is invalid).
IsValidAt(d, t) ==
    IF ~IsSome(d) THEN FALSE
    ELSE IF t < Get(d).startAt THEN FALSE
    ELSE IF t > Get(d).endAt THEN FALSE
    ELSE TRUE

\* ------------------------------------------------------------------------
\* domain.ChangeTracker and domain events
\* ------------------------------------------------------------------------
NewChangeTracker == {}
MarkDirty(p, field) == [p EXCEPT !.changes = @ \cup {field}]
Dirty(p, field) == field \in p.changes
\* ChangeTracker.Clear
Clear(p) == [p EXCEPT !.changes = {}]

DomainEvent(type, t, id) == [type |-> type, occurredAt |-> t, productId |-> id]
\* A faulty append: the new event is put in front of the pending ones.
PrependEvent(p, type, t) ==
    [p EXCEPT !.events = <<DomainEvent(type, t, p.id)>> \o @]

AppendEvent(p, type, t) ==
    [p EXCEPT !.events = Append(@, DomainEvent(type, t, p.id))]

\* ------------------------------------------------------------------------
\* domain.Product
\* ------------------------------------------------------------------------

\* A faulty NewProduct: the product starts Active.
NewProductActive(id, name, description, category, basePrice, t) ==
    LET p0 == [id |-> id, name |-> name, description |-> description,
               category |-> category, basePrice |-> basePrice,
               discount |-> Nil, status |-> ProductStatusActive,
               archivedAt |-> Nil, createdAt |-> t, updatedAt |-> t,
               changes |-> {FieldName, FieldDescription, FieldCategory,
                            FieldBasePrice, FieldStatus},
               events |-> <<>>]
    IN  AppendEvent(p0, "ProductCreatedEvent", t)

NewProduct(id, name, description, category, basePrice, t) ==
    LET p0 == [id |-> id, name |-> name, description |-> description,
               category |-> category, basePrice |-> basePrice,
               discount |-> Nil, status |-> ProductStatusInactive,
               archivedAt |-> Nil, createdAt |-> t, updatedAt |-> t,
               changes |-> NewChangeTracker, events |-> <<>>]
        p1 == MarkDirty(p0, FieldName)
        p2 == MarkDirty(p1, FieldDescription)
        p3 == MarkDirty(p2, FieldCategory)
        p4 == MarkDirty(p3, FieldBasePrice)
        p5 == MarkDirty(p4, FieldStatus)
    IN  AppendEvent(p5, "ProductCreatedEvent", t)

RehydrateProduct(id, name, description, category, basePrice, discount, status, archivedAt, createdAt, updatedAt) ==
    [id |-> id, name |-> name, description |-> description,
     category |-> category, basePrice |-> basePrice,
     discount |-> discount, status |-> status,
     archivedAt |-> archivedAt, createdAt |-> createdAt,
     updatedAt |-> updatedAt,
     changes |-> NewChangeTracker, events |-> <<>>]


\* A faulty UpdateDetails: a supplied value is written and marked dirty
\* without comparing it with the current one.
UpdateDetailsNoCompare(p, name, description, category, t) ==
    LET c1 == name # ""
        p1 == IF c1 THEN MarkDirty([p EXCEPT !.name = name], FieldName)
              ELSE p
        c2 == description # ""
        p2 == IF c2
              THEN MarkDirty([p1 EXCEPT !.description = description],
                             FieldDescription)
              ELSE p1
        c3 == category # ""
        p3 == IF c3
              THEN MarkDirty([p2 EXCEPT !.category = category], FieldCategory)
              ELSE p2
        changed == c1 \/ c2 \/ c3
    IN  IF changed
        THEN AppendEvent([p3 EXCEPT !.updatedAt = t], "ProductUpdatedEvent", t)
        ELSE p3

UpdateDetails(p, name, description, category, t) ==
    LET c1 == name # "" /\ name # p.name
        p1 == IF c1 THEN MarkDirty([p EXCEPT !.name = name], FieldName)
              ELSE p
        c2 == description # "" /\ description # p1.description
        p2 == IF c2
              THEN MarkDirty([p1 EXCEPT !.description = description],
                             FieldDescription)
              ELSE p1
        c3 == category # "" /\ category # p2.category
        p3 == IF c3
              THEN MarkDirty([p2 EXCEPT !.category = category], FieldCategory)
              ELSE p2
        changed == c1 \/ c2 \/ c3
    IN  IF changed
        THEN AppendEvent([p3 EXCEPT !.updatedAt = t], "ProductUpdatedEvent", t)
        ELSE p3


\* A faulty Activate: the Archived status is not checked.
ActivateArchived(p, t) ==
    IF p.status = ProductStatusActive THEN p
    ELSE AppendEvent(
           MarkDirty([p EXCEPT !.status = ProductStatusActive,
                               !.updatedAt = t], FieldStatus),
           "ProductActivatedEvent", t)

\* A faulty Activate: an Active product is activated again.
ActivateAlways(p, t) ==
    IF p.status = ProductStatusArchived THEN p
    ELSE AppendEvent(
           MarkDirty([p EXCEPT !.status = ProductStatusActive,
                               !.updatedAt = t], FieldStatus),
           "ProductActivatedEvent", t)

Activate(p, t) ==
    IF p.status = ProductStatusActive THEN p
    ELSE IF p.status = ProductStatusArchived THEN p
    ELSE AppendEvent(
           MarkDirty([p EXCEPT !.status = ProductStatusActive,
                               !.updatedAt = t], FieldStatus),
           "ProductActivatedEvent", t)


\* A faulty Deactivate: an Inactive product is deactivated again.
DeactivateAgain(p, t) ==
    IF p.status = ProductStatusArchived THEN p
    ELSE AppendEvent(
           MarkDirty([p EXCEPT !.status = ProductStatusInactive,
                               !.updatedAt = t], FieldStatus),
           "ProductDeactivatedEvent", t)

\* A faulty Deactivate: the status is not marked dirty.
DeactivateNotMarked(p, t) ==
    IF p.status = ProductStatusInactive THEN p
    ELSE IF p.status = ProductStatusArchived THEN p
    ELSE AppendEvent([p EXCEPT !.status = ProductStatusInactive,
                               !.updatedAt = t],
                     "ProductDeactivatedEvent", t)

\* A faulty Deactivate: the discount is dropped with the status change.
DeactivateDropsDiscount(p, t) ==
    IF p.status = ProductStatusInactive THEN p
    ELSE IF p.status = ProductStatusArchived THEN p
    ELSE AppendEvent(
           MarkDirty(
             MarkDirty([p EXCEPT !.status = ProductStatusInactive,
                                 !.discount = Nil,
                                 !.updatedAt = t], FieldStatus),
             FieldDiscount),
           "ProductDeactivatedEvent", t)

Deactivate(p, t) ==
    IF p.status = ProductStatusInactive THEN p
    ELSE IF p.status = ProductStatusArchived THEN p
    ELSE AppendEvent(
           MarkDirty([p EXCEPT !.status = ProductStatusInactive,
                               !.updatedAt = t], FieldStatus),
           "ProductDeactivatedEvent", t)


\* A faulty Archive: an Archived product is archived again.
ArchiveAgain(p, t) ==
    MarkDirty(
      MarkDirty([p EXCEPT !.status = ProductStatusArchived,
                          !.archivedAt = Some(t),
                          !.updatedAt = t], FieldStatus),
      FieldArchivedAt)

\* A faulty Archive: archived_at is not marked dirty.
ArchiveNotMarked(p, t) ==
    IF p.status = ProductStatusArchived THEN p
    ELSE MarkDirty([p EXCEPT !.status = ProductStatusArchived,
                             !.archivedAt = Some(t),
                             !.updatedAt = t], FieldStatus)

\* A faulty Archive: archivedAt is not assigned.
ArchiveWithoutTime(p, t) ==
    IF p.status = ProductStatusArchived THEN p
    ELSE MarkDirty(
           MarkDirty([p EXCEPT !.status = ProductStatusArchived,
                               !.updatedAt = t], FieldStatus),
           FieldArchivedAt)

Archive(p, t) ==
    IF p.status = ProductStatusArchived THEN p
    ELSE MarkDirty(
           MarkDirty([p EXCEPT !.status = ProductStatusArchived,
                               !.archivedAt = Some(t),
                               !.updatedAt = t], FieldStatus),
           FieldArchivedAt)


\* A faulty ApplyDiscount check: the period is checked before the status.
ApplyDiscountErrPeriodFirst(p, discount, t) ==
    IF ~IsSome(discount) \/ ~IsValidAt(discount, t)
    THEN ErrInvalidDiscountPeriod
    ELSE IF p.status # ProductStatusActive THEN ErrProductNotActive
    ELSE ErrNone

\* ApplyDiscount: the error returned, and the aggregate afterwards.
\* discount is optional (a nil *Discount is Nil).
ApplyDiscountErr(p, discount, t) ==
    IF p.status # ProductStatusActive THEN ErrProductNotActive
    ELSE IF ~IsSome(discount) \/ ~IsValidAt(discount, t)
    THEN ErrInvalidDiscountPeriod
    ELSE ErrNone



\* A faulty ApplyDiscount: a discount already held is kept.
ApplyDiscountKeepFirst(p, discount, t) ==
    IF ApplyDiscountErr(p, discount, t) # ErrNone THEN p
    ELSE AppendEvent(
           MarkDirty([p EXCEPT !.discount =
                                    IF IsSome(@) THEN @ ELSE discount,
                               !.updatedAt = t],
                     FieldDiscount),
           "DiscountAppliedEvent", t)

\* A faulty ApplyDiscount: the discount is not marked dirty.
ApplyDiscountNotMarked(p, discount, t) ==
    IF ApplyDiscountErr(p, discount, t) # ErrNone THEN p
    ELSE AppendEvent([p EXCEPT !.discount = discount, !.updatedAt = t],
                     "DiscountAppliedEvent", t)

ApplyDiscount(p, discount, t) ==
    IF ApplyDiscountErr(p, discount, t) # ErrNone THEN p
    ELSE AppendEvent(
           MarkDirty([p EXCEPT !.discount = discount, !.updatedAt = t],
                     FieldDiscount),
           "DiscountAppliedEvent", t)



\* A faulty RemoveDiscount: the discount is marked dirty and the event is
\* appended, but the discount is kept.
RemoveDiscountKeepsDiscount(p, t) ==
    IF ~IsSome(p.discount) THEN p
    ELSE AppendEvent(MarkDirty([p EXCEPT !.updatedAt = t], FieldDiscount),
                     "DiscountRemovedEvent", t)

\* A faulty RemoveDiscount: the absence of a discount is not checked.
RemoveDiscountAlways(p, t) ==
    AppendEvent(
      MarkDirty([p EXCEPT !.discount = Nil, !.updatedAt = t], FieldDiscount),
      "DiscountRemovedEvent", t)

RemoveDiscount(p, t) ==
    IF ~IsSome(p.discount) THEN p
    ELSE AppendEvent(
           MarkDirty([p EXCEPT !.discount = Nil, !.updatedAt = t],
                     FieldDiscount),
           "DiscountRemovedEvent", t)

DomainEvents(p) == p.events

\* A faulty ClearDomainEvents: the pending events are kept.
KeepDomainEvents(p) == p

ClearDomainEvents(p) == [p EXCEPT !.events = <<>>]

\* ------------------------------------------------------------------------
\* Persistence: rows of the products table, rows of the outbox_events
\* table, and the mutations a commit plan holds.
\* ------------------------------------------------------------------------
ProductsTable == "products"
OutboxTable == "outbox_events"

Mutation(kind, table, key, cols) ==
    [kind |-> kind, table |-> table, key |-> key, cols |-> cols]

\* The three discount columns written for an optional discount.
DiscountPercentCol(d) ==
    IF IsSome(d) THEN Some(RatString(Get(d).percentage)) ELSE Nil
DiscountStartCol(d) == IF IsSome(d) THEN Some(Get(d).startAt) ELSE Nil
DiscountEndCol(d) == IF IsSome(d) THEN Some(Get(d).endAt) ELSE Nil

\* ProductRepo.InsertMut (with mproduct.InsertMut): a full-row insert.
RepoInsertMut(p) ==
    Mutation("insert", ProductsTable, p.id,
        [product_id |-> p.id,
         name |-> p.name,
         description |-> p.description,
         category |-> p.category,
         base_price_numerator |-> Fraction(p.basePrice)[1],
         base_price_denominator |-> Fraction(p.basePrice)[2],
         discount_percent |-> DiscountPercentCol(p.discount),
         discount_start_date |-> DiscountStartCol(p.discount),
         discount_end_date |-> DiscountEndCol(p.discount),
         status |-> p.status,
         created_at |-> p.createdAt,
         updated_at |-> p.updatedAt,
         archived_at |-> p.archivedAt])

\* ProductRepo.UpdateMut: the columns the change tracker marks dirty.
\* A faulty ProductRepo.UpdateMut: the archived_at column is never written.
UpdateColsWithoutArchivedAt(p) ==
    (IF Dirty(p, FieldName) THEN {"name"} ELSE {})
    \cup (IF Dirty(p, FieldDescription) THEN {"description"} ELSE {})
    \cup (IF Dirty(p, FieldCategory) THEN {"category"} ELSE {})
    \cup (IF Dirty(p, FieldStatus) THEN {"status"} ELSE {})
    \cup (IF Dirty(p, FieldDiscount)
          THEN {"discount_percent", "discount_start_date",
                "discount_end_date"}
          ELSE {})

UpdateCols(p) ==
    (IF Dirty(p, FieldName) THEN {"name"} ELSE {})
    \cup (IF Dirty(p, FieldDescription) THEN {"description"} ELSE {})
    \cup (IF Dirty(p, FieldCategory) THEN {"category"} ELSE {})
    \cup (IF Dirty(p, FieldStatus) THEN {"status"} ELSE {})
    \cup (IF Dirty(p, FieldDiscount)
          THEN {"discount_percent", "discount_start_date",
                "discount_end_date"}
          ELSE {})
    \cup (IF Dirty(p, FieldArchivedAt) THEN {"archived_at"} ELSE {})

UpdateValue(p, c) ==
    CASE c = "name" -> p.name
      [] c = "description" -> p.description
      [] c = "category" -> p.category
      [] c = "status" -> p.status
      [] c = "discount_percent" -> DiscountPercentCol(p.discount)
      [] c = "discount_start_date" -> DiscountStartCol(p.discount)
      [] c = "discount_end_date" -> DiscountEndCol(p.discount)
      [] c = "archived_at" -> p.archivedAt
      [] c = "updated_at" -> p.updatedAt

\* A faulty ProductRepo.UpdateMut: every column is written, dirty or not.
RepoUpdateMutAllColumns(p) ==
    Some(Mutation("update", ProductsTable, p.id,
           [c \in {"name", "description", "category", "status",
                   "discount_percent", "discount_start_date",
                   "discount_end_date", "archived_at", "updated_at"} |->
               UpdateValue(p, c)]))

\* Returns Nil when nothing is dirty, else the update of the product's row
\* (mproduct.UpdateMut; the row updated is the one of the id passed to it).
RepoUpdateMut(p) ==
    IF UpdateCols(p) = {} THEN Nil
    ELSE Some(Mutation("update", ProductsTable, p.id,
                [c \in UpdateCols(p) \cup {"updated_at"} |->
                    UpdateValue(p, c)]))

\* OutboxRepo.InsertMut (with moutbox.InsertMut); created_at is the wall
\* clock at the call.
OutboxInsertMut(e, t) ==
    Mutation("insert", OutboxTable, e.EventID,
        [event_id |-> e.EventID,
         event_type |-> e.EventType,
         aggregate_id |-> e.AggregateID,
         payload |-> e.Payload,
         status |-> e.Status,
         created_at |-> t])

\* ProductRepo.toDomain: the error, and the aggregate when there is none.
RowDiscountPresent(row) ==
    /\ IsSome(row.discount_percent)
    /\ IsSome(row.discount_start_date)
    /\ IsSome(row.discount_end_date)

ToDomainErr(row) ==
    IF ~NewMoneyFromFractionOk(row.base_price_numerator,
                               row.base_price_denominator)
    THEN ErrInvalidDenominator
    ELSE IF ~RowDiscountPresent(row) THEN ErrNone
    ELSE IF ~RatSetStringOk(Get(row.discount_percent))
    THEN ErrInvalidDiscount
    ELSE NewDiscountErr(RatSetString(Get(row.discount_percent)),
                        Get(row.discount_start_date),
                        Get(row.discount_end_date))

ToDomain(row) ==
    RehydrateProduct(
        row.product_id, row.name, row.description, row.category,
        NewMoneyFromFraction(row.base_price_numerator,
                             row.base_price_denominator),
        IF RowDiscountPresent(row)
        THEN Some(NewDiscount(RatSetString(Get(row.discount_percent)),
                              Get(row.discount_start_date),
                              Get(row.discount_end_date)))
        ELSE Nil,
        row.status, row.archived_at, row.created_at, row.updated_at)

\* ProductRepo.FindByID against a products table rs.
FindByIDErr(rs, id) ==
    IF ~IsSome(rs[id]) THEN ErrNotFound ELSE ToDomainErr(Get(rs[id]))
FindByID(rs, id) == ToDomain(Get(rs[id]))

\* json.Marshal of a domain event: only the exported ProductID field.
Payload(event) == [ProductID |-> event.productId]

\* enrichEvent of a usecase whose eventType function is given by tag.
EnrichEvent(aggregateID, event, tag, eventID) ==
    [EventID |-> eventID, EventType |-> tag, AggregateID |-> aggregateID,
     Payload |-> Payload(event), Status |-> "pending"]

\* eventType of each usecase package.
CreateEventType(event) ==
    CASE event.type = "ProductCreatedEvent" -> "product.created"
      [] event.type = "ProductUpdatedEvent" -> "product.updated"
      [] event.type = "ProductActivatedEvent" -> "product.activated"
      [] event.type = "ProductDeactivatedEvent" -> "product.deactivated"
      [] event.type = "DiscountAppliedEvent" -> "discount.applied"
      [] event.type = "DiscountRemovedEvent" -> "discount.removed"
      [] OTHER -> "unknown"

UpdateEventType(event) ==
    IF event.type = "ProductUpdatedEvent" THEN "product.updated"
    ELSE "unknown"

ActivateEventType(event) ==
    IF event.type = "ProductActivatedEvent" THEN "product.activated"
    ELSE "unknown"

DeactivateEventType(event) ==
    IF event.type = "ProductDeactivatedEvent" THEN "product.deactivated"
    ELSE "unknown"

ApplyDiscountEventType(event) ==
    IF event.type = "DiscountAppliedEvent" THEN "discount.applied"
    ELSE "unknown"

RemoveDiscountEventType(event) ==
    IF event.type = "DiscountRemovedEvent" THEN "discount.removed"
    ELSE "unknown"

\* A faulty enrichEvent: every usecase calls the eventType of the
\* deactivate package.
EventTypeOfDeactivate(op, event) == DeactivateEventType(event)

EventTypeOf(op, event) ==
    CASE op = "create" -> CreateEventType(event)
      [] op = "update" -> UpdateEventType(event)
      [] op = "activate" -> ActivateEventType(event)
      [] op = "deactivate" -> DeactivateEventType(event)
      [] op = "apply_discount" -> ApplyDiscountEventType(event)
      [] op = "remove_discount" -> RemoveDiscountEventType(event)

\* A faulty outbox loop: every pending event is inserted twice.
OutboxMutsTwice(op, p, t) ==
    [i \in 1..(2 * Len(DomainEvents(p))) |->
        OutboxInsertMut(EnrichEvent(p.id, DomainEvents(p)[(i + 1) \div 2],
                                    EventTypeOf(op,
                                        DomainEvents(p)[(i + 1) \div 2]), t),
                        t)]

\* Steps 3-5 of a usecase: the plan holding the aggregate write (when the
\* repository returns one) followed by one outbox insert per pending event.
OutboxMuts(op, p, t) ==
    [i \in 1..Len(DomainEvents(p)) |->
        OutboxInsertMut(EnrichEvent(p.id, DomainEvents(p)[i],
                                    EventTypeOf(op, DomainEvents(p)[i]), t),
                        t)]

InsertPlan(op, p, t) == <<RepoInsertMut(p)>> \o OutboxMuts(op, p, t)
UpdatePlan(op, p, t) == RepoUpdateMut(p) \o OutboxMuts(op, p, t)
\* The archive usecase adds no outbox insert.
ArchivePlan(p) == RepoUpdateMut(p)

\* plan.Apply on the store: the whole batch or nothing. An insert fails on
\* an existing primary key of the products table, an update on a missing
\* row.
\* A faulty store: an insert into the products table replaces an existing
\* row.
MutationAppliesUpsert(m, rs) ==
    IF m.table # ProductsTable THEN TRUE
    ELSE IF m.kind = "insert" THEN TRUE
    ELSE IsSome(rs[m.key])

MutationApplies(m, rs) ==
    IF m.table # ProductsTable THEN TRUE
    ELSE IF m.kind = "insert" THEN ~IsSome(rs[m.key])
    ELSE IsSome(rs[m.key])

CanApply(plan, rs) == \A i \in 1..Len(plan) : MutationApplies(plan[i], rs)

ApplyRowMutation(m, rs) ==
    IF m.table # ProductsTable THEN rs
    ELSE IF m.kind = "insert" THEN [rs EXCEPT ![m.key] = Some(m.cols)]
    ELSE [rs EXCEPT ![m.key] =
            Some([c \in DOMAIN Get(@) |->
                    IF c \in DOMAIN m.cols THEN m.cols[c] ELSE Get(@)[c]])]

RECURSIVE ApplyRows(_, _)
ApplyRows(plan, rs) ==
    IF plan = <<>> THEN rs
    ELSE ApplyRows(Tail(plan), ApplyRowMutation(Head(plan), rs))

RECURSIVE ApplyOutbox(_, _)
ApplyOutbox(plan, ob) ==
    IF plan = <<>> THEN ob
    ELSE ApplyOutbox(Tail(plan),
            IF Head(plan).table = OutboxTable
            THEN Append(ob, Head(plan).cols) ELSE ob)

\* ------------------------------------------------------------------------
\* State
\* ------------------------------------------------------------------------
VARIABLES
    rows,     \* products table: product id -> Nil or Some(row)
    outbox,   \* outbox_events table: the rows in commit order
    now,      \* reading of the clock (clock.Now, time.Now)
    p,        \* the aggregate instance of the last operation, as the
              \* operation left it (Nil when it had none)
    result    \* what the operation in progress did: its name, the rational
              \* of the request (numerator, denominator of a create;
              \* numerator, denominator, start, end of an apply-discount;
              \* Nil for the other operations), the product
              \* id, the clock reading it used, the error returned, the
              \* discount passed to ApplyDiscount (Nil when it was not
              \* called), the aggregate before the domain method (as loaded)
              \* and after it (before the commit), the commit plan, whether
              \* it was applied
VARIABLES
    inflight  \* per concurrent caller: Nil, or Some of the Execute call it
              \* is in, between its FindByID (or its NewProduct) and its
              \* committer.Apply: the operation, the aggregate as loaded
              \* and as mutated, the commit plan built from it

vars == <<rows, outbox, now, p, result, inflight>>

ProductIds == Times

\* The callers that run usecases concurrently.
Callers == {1, 2}

Result(op, req, id, at, err, arg, before, mutated, plan, committed) ==
    [op |-> op, req |-> req, id |-> id, at |-> at, err |-> err, arg |-> arg,
     before |-> before, mutated |-> mutated, plan |-> plan,
     committed |-> committed]

NoResult == Result("none", Nil, Nil, 0, ErrNone, Nil, Nil, Nil, <<>>, FALSE)

\* generateID: "id-<UnixNano>" of the wall clock.
GenerateID == now

\* Inputs of the requests.
\* Base prices of create requests: numerator and denominator as sent.
PriceRequests == {<<2, 4>>, <<2, 0>>, <<2, -4>>}
\* name, description, category passed to UpdateDetails ("" means no
\* change): nothing, the current name with a new description, and the same
\* with a new category.
DetailRequests ==
    {<<"", "", "">>, <<"a", "b", "">>, <<"a", "b", "b">>}
\* The update requests sent to the update usecase: one that supplies
\* nothing, one that supplies the stored name and a new description.
UpdateRequests == {<<"", "", "">>, <<"a", "b", "">>}
\* Discount windows <<start, end>>: windows of one instant, and windows
\* that end before they start.
Windows ==
    {<<t, t>> : t \in Times} \cup {<<t, t - 1>> : t \in Times \ {0}}
\* Discount requests <<numerator, denominator, start, end>>: one half over
\* every window, and percentages below 0, above 1 (the latter also over a
\* window that ends before it starts), with a zero denominator and with a
\* negative denominator.
DiscountRequests ==
    {<<1, 2, w[1], w[2]>> : w \in Windows}
    \cup {<<-1, 2, 0, 0>>, <<3, 2, 0, 0>>, <<3, 2, 1, 0>>, <<1, 0, 0, 0>>,
          <<-1, -2, 0, 0>>}

\* ------------------------------------------------------------------------
\* The write usecases (Interactor.Execute), one action each. Operations run
\* one at a time: a usecase starts when no operation is in progress, and
\* Return hands control back to the caller.
\* ------------------------------------------------------------------------
Idle == result.op = "none"

\* A faulty early return: the error is swallowed.
ReturnEarlySwallowed(op, req, id, err, arg, loaded, agg) ==
    /\ p' = agg
    /\ result' = Result(op, req, id, now, ErrNone, arg, loaded, agg, <<>>,
                      FALSE)
    /\ UNCHANGED <<rows, outbox, now, inflight>>

\* A usecase returns before building a plan.
ReturnEarly(op, req, id, err, arg, loaded, agg) ==
    /\ p' = agg
    /\ result' = Result(op, req, id, now, err, arg, loaded, agg, <<>>,
                      FALSE)
    /\ UNCHANGED <<rows, outbox, now, inflight>>


\* A faulty commit: the row mutations of a batch go through although the
\* commit is reported as failed.
ApplyPlanNotAtomic(op, req, arg, loaded, product, plan, clear) ==
    \E ok \in BOOLEAN :
        LET applied == ok /\ CanApply(plan, rows)
        IN  /\ Len(ApplyOutbox(plan, outbox)) <= MaxOutbox
            /\ rows' = IF CanApply(plan, rows) THEN ApplyRows(plan, rows)
                       ELSE rows
            /\ outbox' = IF applied THEN ApplyOutbox(plan, outbox)
                         ELSE outbox
            /\ p' = Some(IF applied /\ clear
                         THEN ClearDomainEvents(product) ELSE product)
            /\ result' = Result(op, req, Some(product.id), now,
                                IF applied THEN ErrNone ELSE ErrCommitFailed,
                                arg, loaded, Some(product), plan, applied)
            /\ UNCHANGED <<now, inflight>>

\* PlanCommitter.Apply and the rest of Execute: the plan is applied as a
\* whole or not at all (the store may fail any commit); after a successful
\* commit the usecase clears the pending events when clear is TRUE.
ApplyPlan(op, req, arg, loaded, product, plan, clear) ==
    \E ok \in BOOLEAN :
        LET applied == ok /\ CanApply(plan, rows)
        IN  /\ Len(ApplyOutbox(plan, outbox)) <= MaxOutbox
            /\ rows' = IF applied THEN ApplyRows(plan, rows) ELSE rows
            /\ outbox' = IF applied THEN ApplyOutbox(plan, outbox)
                         ELSE outbox
            /\ p' = Some(IF applied /\ clear
                         THEN ClearDomainEvents(product) ELSE product)
            /\ result' = Result(op, req, Some(product.id), now,
                                IF applied THEN ErrNone ELSE ErrCommitFailed,
                                arg, loaded, Some(product), plan, applied)
            /\ UNCHANGED <<now, inflight>>

CreateExecute(name, description, category, num, den) ==
    IF ~NewMoneyFromFractionOk(num, den)
    THEN ReturnEarly("create", Some(<<num, den>>), Nil,
                     ErrInvalidDenominator, Nil, Nil, Nil)
    ELSE LET product == NewProduct(GenerateID, name, description, category,
                                   NewMoneyFromFraction(num, den), now)
         IN  ApplyPlan("create", Some(<<num, den>>), Nil, Nil, product,
                       InsertPlan("create", product, GenerateID), TRUE)

UpdateExecute(id, name, description, category) ==
    IF FindByIDErr(rows, id) # ErrNone
    THEN ReturnEarly("update", Nil, Some(id), FindByIDErr(rows, id), Nil,
                     Nil, Nil)
    ELSE LET product == UpdateDetails(FindByID(rows, id), name, description,
                                      category, now)
         IN  ApplyPlan("update", Nil, Nil, Some(FindByID(rows, id)),
                       product,
                       UpdatePlan("update", product, GenerateID), TRUE)

\* The activate usecase mirrors the deactivate usecase.
ActivateExecute(id) ==
    IF FindByIDErr(rows, id) # ErrNone
    THEN ReturnEarly("activate", Nil, Some(id), FindByIDErr(rows, id), Nil,
                     Nil, Nil)
    ELSE LET product == Activate(FindByID(rows, id), now)
         IN  ApplyPlan("activate", Nil, Nil, Some(FindByID(rows, id)),
                       product,
                       UpdatePlan("activate", product, GenerateID), TRUE)

DeactivateExecute(id) ==
    IF FindByIDErr(rows, id) # ErrNone
    THEN ReturnEarly("deactivate", Nil, Some(id), FindByIDErr(rows, id), Nil,
                     Nil, Nil)
    ELSE LET product == Deactivate(FindByID(rows, id), now)
         IN  ApplyPlan("deactivate", Nil, Nil, Some(FindByID(rows, id)),
                       product,
                       UpdatePlan("deactivate", product, GenerateID), TRUE)

ArchiveExecute(id) ==
    IF FindByIDErr(rows, id) # ErrNone
    THEN ReturnEarly("archive", Nil, Some(id), FindByIDErr(rows, id), Nil,
                     Nil, Nil)
    ELSE LET product == Archive(FindByID(rows, id), now)
         IN  ApplyPlan("archive", Nil, Nil, Some(FindByID(rows, id)),
                       product, ArchivePlan(product), FALSE)

ApplyDiscountExecute(id, num, den, start, end) ==
    LET req == Some(<<num, den, start, end>>)
    IN  IF FindByIDErr(rows, id) # ErrNone
        THEN ReturnEarly("apply_discount", req, Some(id),
                         FindByIDErr(rows, id), Nil, Nil, Nil)
        ELSE IF den = 0
        THEN \* big.NewRat panics on a zero denominator
             ReturnEarly("apply_discount", req, Some(id), ErrPanic, Nil,
                         Some(FindByID(rows, id)), Some(FindByID(rows, id)))
        ELSE IF NewDiscountErr(NewRat(num, den), start, end) # ErrNone
        THEN ReturnEarly("apply_discount", req, Some(id),
                         NewDiscountErr(NewRat(num, den), start, end), Nil,
                         Some(FindByID(rows, id)), Some(FindByID(rows, id)))
        ELSE LET loaded == FindByID(rows, id)
                 discount == Some(NewDiscount(NewRat(num, den), start, end))
                 product == ApplyDiscount(loaded, discount, now)
             IN  IF ApplyDiscountErr(loaded, discount, now) # ErrNone
                 THEN ReturnEarly("apply_discount", req, Some(id),
                                  ApplyDiscountErr(loaded, discount, now),
                                  discount, Some(loaded), Some(product))
                 ELSE ApplyPlan("apply_discount", req, discount,
                                Some(loaded), product,
                                UpdatePlan("apply_discount", product,
                                           GenerateID),
                                TRUE)

RemoveDiscountExecute(id) ==
    IF FindByIDErr(rows, id) # ErrNone
    THEN ReturnEarly("remove_discount", Nil, Some(id),
                     FindByIDErr(rows, id), Nil, Nil, Nil)
    ELSE LET product == RemoveDiscount(FindByID(rows, id), now)
         IN  ApplyPlan("remove_discount", Nil, Nil, Some(FindByID(rows, id)),
                       product,
                       UpdatePlan("remove_discount", product, GenerateID),
                       TRUE)

Init ==
    /\ rows = [id \in ProductIds |-> Nil]
    /\ outbox = <<>>
    /\ now = 0
    /\ p = Nil
    /\ result = NoResult
    /\ inflight = [s \in Callers |-> Nil]

Create ==
    /\ Idle
    /\ \E price \in PriceRequests :
        CreateExecute("a", "a", "a", price[1], price[2])

Update ==
    /\ Idle
    /\ \E id \in ProductIds, d \in UpdateRequests :
        UpdateExecute(id, d[1], d[2], d[3])

ActivateProduct == Idle /\ \E id \in ProductIds : ActivateExecute(id)

DeactivateProduct == Idle /\ \E id \in ProductIds : DeactivateExecute(id)

ArchiveProduct == Idle /\ \E id \in ProductIds : ArchiveExecute(id)

ApplyDiscountToProduct ==
    /\ Idle
    /\ \E id \in ProductIds, d \in DiscountRequests :
        ApplyDiscountExecute(id, d[1], d[2], d[3], d[4])

RemoveDiscountFromProduct ==
    Idle /\ \E id \in ProductIds : RemoveDiscountExecute(id)

\* The caller of an activate, deactivate, archive or remove-discount whose
\* commit failed calls the same operation again with the same id.
Retry ==
    /\ result.err = ErrCommitFailed
    /\ \/ result.op = "activate" /\ ActivateExecute(Get(result.id))
       \/ result.op = "deactivate" /\ DeactivateExecute(Get(result.id))
       \/ result.op = "archive" /\ ArchiveExecute(Get(result.id))
       \/ /\ result.op = "remove_discount"
          /\ RemoveDiscountExecute(Get(result.id))

\* The operation returns to its caller; its aggregate instance is dropped.
Return ==
    /\ ~Idle
    /\ p' = Nil
    /\ result' = NoResult
    /\ UNCHANGED <<rows, outbox, now, inflight>>

\* The clock moves forward between operations.
Tick ==
    /\ Idle
    /\ now < MaxTime
    /\ now' = now + 1
    /\ UNCHANGED <<rows, outbox, p, result, inflight>>

Next ==
    \/ Create
    \/ Update
    \/ ActivateProduct
    \/ DeactivateProduct
    \/ ArchiveProduct
    \/ ApplyDiscountToProduct
    \/ RemoveDiscountFromProduct
    \/ Retry
    \/ Return
    \/ Tick

Spec == Init /\ [][Next]_vars

\* ------------------------------------------------------------------------
\* The aggregate on its own: one Product instance whose methods are called
\* directly, any number of times, with the clock reading as the time
\* argument. result keeps the name of the call, the time passed, the
\* argument passed (the discount of ApplyDiscount, the name, description
\* and category of UpdateDetails) and the error returned, until the call
\* returns.
\* ------------------------------------------------------------------------
\* Discounts that NewDiscount returns for the requests above, and nil.
Discounts ==
    {Some(NewDiscount(NewRat(d[1], d[2]), d[3], d[4])) :
        d \in {r \in DiscountRequests :
                 /\ r[2] # 0
                 /\ NewDiscountErr(NewRat(r[1], r[2]), r[3], r[4]) = ErrNone}}
    \cup {Nil}

Called(op, err, arg) ==
    Result(op, Nil, Nil, now, err, arg, p, Nil, <<>>, FALSE)

\* A method call leaves the aggregate m.
Call(op, err, arg, m) ==
    /\ Idle
    /\ Len(m.events) <= MaxEvents
    /\ p' = Some(m)
    /\ result' = Called(op, err, arg)
    /\ UNCHANGED <<rows, outbox, now, inflight>>

DomNewProduct ==
    /\ ~IsSome(p)
    /\ Call("NewProduct", ErrNone, Nil,
            NewProduct(GenerateID, "a", "a", "a",
                       NewMoneyFromFraction(2, 4), now))

DomUpdateDetails ==
    /\ IsSome(p)
    /\ \E d \in DetailRequests :
        Call("UpdateDetails", ErrNone, Some(d),
             UpdateDetails(Get(p), d[1], d[2], d[3], now))

DomActivate ==
    IsSome(p) /\ Call("Activate", ErrNone, Nil, Activate(Get(p), now))

DomDeactivate ==
    IsSome(p) /\ Call("Deactivate", ErrNone, Nil, Deactivate(Get(p), now))

DomArchive ==
    IsSome(p) /\ Call("Archive", ErrNone, Nil, Archive(Get(p), now))

DomApplyDiscount ==
    /\ IsSome(p)
    /\ \E d \in Discounts :
        Call("ApplyDiscount", ApplyDiscountErr(Get(p), d, now), d,
             ApplyDiscount(Get(p), d, now))

DomRemoveDiscount ==
    /\ IsSome(p)
    /\ Call("RemoveDiscount", ErrNone, Nil, RemoveDiscount(Get(p), now))

\* The end of a usecase on the aggregate as it stands: the plan of the
\* aggregate write and one outbox insert per pending event is built (steps
\* 3 to 5 of createproduct.Execute), then ClearDomainEvents is called.
DomClearDomainEvents ==
    /\ Idle
    /\ IsSome(p)
    /\ p' = Some(ClearDomainEvents(Get(p)))
    /\ result' = Result("ClearDomainEvents", Nil, Nil, now, ErrNone, Nil, p,
                        Nil, InsertPlan("create", Get(p), GenerateID), FALSE)
    /\ UNCHANGED <<rows, outbox, now, inflight>>

\* The aggregate is persisted and loaded again: same attributes, no dirty
\* flag, no pending event.
DomRehydrate ==
    /\ IsSome(p)
    /\ Call("RehydrateProduct", ErrNone, Nil,
            RehydrateProduct(Get(p).id, Get(p).name, Get(p).description,
                             Get(p).category, Get(p).basePrice,
                             Get(p).discount, Get(p).status,
                             Get(p).archivedAt, Get(p).createdAt,
                             Get(p).updatedAt))

\* The call returns; the caller keeps the aggregate.
DomReturn ==
    /\ ~Idle
    /\ result' = NoResult
    /\ UNCHANGED <<rows, outbox, now, p, inflight>>

DomainNext ==
    \/ DomNewProduct
    \/ DomUpdateDetails
    \/ DomActivate
    \/ DomDeactivate
    \/ DomArchive
    \/ DomApplyDiscount
    \/ DomRemoveDiscount
    \/ DomClearDomainEvents
    \/ DomRehydrate
    \/ DomReturn
    \/ Tick

DomainSpec == Init /\ [][DomainNext]_vars

\* ------------------------------------------------------------------------
\* Money arithmetic, Discount.IsValidAt and PricingCalculator on their own:
\* the functions are called on values drawn from small sets, and on the
\* Money a previous call returned. result keeps the call in progress: its
\* name, the call that produced its receiver (from), the receiver before
\* and after the call, the argument and the value returned.
\* ------------------------------------------------------------------------
\* Largest magnitude of the small numerators, and largest small denominator.
MaxNumerator == 3
MaxDenominator == 3
\* Largest instant of a discount window or a price query.
MaxInstant == 3

Instants == 0..MaxInstant

\* (*big.Rat).Mul and (*big.Rat).Sub: exact, result in lowest terms.
RatMul(x, y) == NewRat(x[1] * y[1], x[2] * y[2])
RatSub(x, y) == NewRat(x[1] * y[2] - y[1] * x[2], x[2] * y[2])

\* A faulty MultiplyBy: the product is stored in the receiver.
MultiplyByInPlace(m, ratio) ==
    [after |-> RatMul(m, ratio), out |-> RatMul(m, ratio)]

\* Money.MultiplyBy and Money.Subtract on non-nil values: the receiver
\* after the call and the Money returned (a new big.Rat).
MultiplyBy(m, ratio) == [after |-> m, out |-> RatMul(m, ratio)]
Subtract(m, other) == [after |-> m, out |-> RatSub(m, other)]

\* Money.Compare on non-nil values.
Compare(m, other) == RatCmp(m, other)

\* A faulty EffectivePrice: the validity of the discount is not checked.
EffectivePriceAlwaysDiscounted(product, at) ==
    IF ~IsSome(product.discount) THEN product.basePrice
    ELSE MultiplyBy(product.basePrice,
                    RatSub(NewRat(1, 1),
                           Get(product.discount).percentage)).out

\* PricingCalculator.EffectivePrice of a product with a base price.
EffectivePrice(product, at) ==
    IF ~IsSome(product.discount) \/ ~IsValidAt(product.discount, at)
    THEN product.basePrice
    ELSE MultiplyBy(product.basePrice,
                    RatSub(NewRat(1, 1),
                           Get(product.discount).percentage)).out

\* Inputs: numerators and denominators as passed to NewMoneyFromFraction
\* (small ones, and the hundredths of the prices 19.99, 20.00 and 100.00),
\* ratios, discounts and products.
Numerators == (-MaxNumerator..MaxNumerator) \cup {1999, 2000, 10000}
Denominators == (-1..MaxDenominator) \cup {100}
Moneys ==
    {NewMoneyFromFraction(n, d) :
        n \in Numerators, d \in {x \in Denominators : x > 0}}
Ratios ==
    {NewRat(n, d) : n \in -MaxNumerator..MaxNumerator, d \in 1..MaxDenominator}
    \cup {NewRat(20, 100), NewRat(100, 20)}
Percentages == {NewRat(0, 1), NewRat(20, 100), NewRat(1, 2), NewRat(1, 1)}
ValidDiscounts ==
    {NewDiscount(pc, w[1], w[2]) :
        pc \in Percentages,
        w \in {x \in Instants \X Instants : x[1] <= x[2]}}
BasePrices ==
    {NewMoneyFromFraction(10000, 100), NewMoneyFromFraction(1999, 100),
     NewMoneyFromFraction(1, 3), NewMoneyFromFraction(0, 1)}
PricedProducts ==
    {RehydrateProduct(0, "a", "a", "a", base, d, ProductStatusActive, Nil,
                      0, 0) :
        base \in BasePrices,
        d \in {Some(x) : x \in ValidDiscounts} \cup {Nil}}

ValueCall(op, from, recv, arg, after, out) ==
    [op |-> op, from |-> from, recv |-> recv, arg |-> arg, after |-> after,
     out |-> out]

\* The calls that return a Money, and the Money the last call returned.
MoneyCalls ==
    {"NewMoneyFromFraction", "MultiplyBy", "Subtract", "EffectivePrice"}
HoldsMoney == result.op \in MoneyCalls /\ IsSome(result.out)

\* A call returns; the caller keeps the value returned.
Returns(call) ==
    /\ result' = call
    /\ UNCHANGED <<rows, outbox, now, p, inflight>>

ValNewMoneyFromFraction ==
    /\ Idle
    /\ \E n \in Numerators, d \in Denominators :
        Returns(ValueCall("NewMoneyFromFraction", Nil, Nil, <<n, d>>, Nil,
                          IF NewMoneyFromFractionOk(n, d)
                          THEN Some(NewMoneyFromFraction(n, d)) ELSE Nil))

\* Fraction of the Money the last call returned.
ValFraction ==
    /\ HoldsMoney
    /\ Returns(ValueCall("Fraction", result, Get(result.out), Nil,
                         Get(result.out), Fraction(Get(result.out))))

\* MultiplyBy on a Money just constructed, or on the product of one such
\* multiplication.
ValMultiplyBy ==
    /\ HoldsMoney
    /\ \/ result.op = "NewMoneyFromFraction"
       \/ result.op = "MultiplyBy" /\ result.from.op = "NewMoneyFromFraction"
    /\ \E ratio \in Ratios :
        Returns(ValueCall("MultiplyBy", result, Get(result.out), ratio,
                          MultiplyBy(Get(result.out), ratio).after,
                          Some(MultiplyBy(Get(result.out), ratio).out)))

ValSubtract ==
    /\ HoldsMoney
    /\ result.op = "NewMoneyFromFraction"
    /\ \E other \in Moneys :
        Returns(ValueCall("Subtract", result, Get(result.out), other,
                          Subtract(Get(result.out), other).after,
                          Some(Subtract(Get(result.out), other).out)))

\* Compare of the Money the last call returned with the Money the chain of
\* calls started from.
ValCompare ==
    /\ HoldsMoney
    /\ result.op \in {"MultiplyBy", "Subtract"}
    /\ LET first == IF result.from.op = "NewMoneyFromFraction"
                    THEN result.recv ELSE result.from.recv
       IN  Returns(ValueCall("Compare", result, Get(result.out), first,
                             Get(result.out),
                             Compare(Get(result.out), first)))

ValIsValidAt ==
    /\ Idle
    /\ \E d \in {Some(x) : x \in ValidDiscounts} \cup {Nil}, t \in Instants :
        Returns(ValueCall("IsValidAt", Nil, d, t, d, IsValidAt(d, t)))

\* NewDiscount on a non-nil percentage: the error and the discount returned
\* (nil together with an error).
ValNewDiscount ==
    /\ Idle
    /\ \E percentage \in Ratios, start \in Instants, end \in Instants :
        Returns(ValueCall("NewDiscount", Nil, Nil,
                          <<percentage, start, end>>, Nil,
                          [err |-> NewDiscountErr(percentage, start, end),
                           discount |->
                               IF NewDiscountErr(percentage, start, end)
                                  = ErrNone
                               THEN Some(NewDiscount(percentage, start, end))
                               ELSE Nil]))

ValEffectivePrice ==
    /\ Idle
    /\ \E product \in PricedProducts, at \in Instants :
        Returns(ValueCall("EffectivePrice", Nil, product, at, product,
                          Some(EffectivePrice(product, at))))

\* The caller drops the values it holds.
ValReturn ==
    /\ ~Idle
    /\ Returns(NoResult)

ValueNext ==
    \/ ValNewMoneyFromFraction
    \/ ValFraction
    \/ ValMultiplyBy
    \/ ValSubtract
    \/ ValCompare
    \/ ValIsValidAt
    \/ ValNewDiscount
    \/ ValEffectivePrice
    \/ ValReturn

ValueSpec == Init /\ [][ValueNext]_vars

\* ------------------------------------------------------------------------
\* Concurrent callers. An Execute call touches the store twice: it reads
\* the row (FindByID) and, after the domain method and the plan are done in
\* its own memory, it hands the plan to committer.Apply. Between the two
\* any other caller may read or commit. A create reads nothing; its first
\* step is NewProduct and the plan. The calls of one such window read the
\* same clock instant (the clock does not move in this specification),
\* which is when generateID hands equal ids to different calls.
\* ------------------------------------------------------------------------
Pending(op, loaded, product, plan) ==
    [op |-> op, loaded |-> loaded, product |-> product, plan |-> plan]

\* Execute up to the call of committer.Apply.
Enter(s, op, loaded, product, plan) ==
    /\ inflight' = [inflight EXCEPT
                        ![s] = Some(Pending(op, loaded, product, plan))]
    /\ UNCHANGED <<rows, outbox, now, p, result>>

\* Execute returns its error before it builds a plan.
Leave(s) == UNCHANGED vars

CallCreate(s) ==
    /\ inflight[s] = Nil
    /\ LET product == NewProduct(GenerateID, "a", "a", "a",
                                 NewMoneyFromFraction(2, 4), now)
       IN  Enter(s, "create", Nil, product,
                 InsertPlan("create", product, GenerateID))

CallUpdate(s) ==
    /\ inflight[s] = Nil
    /\ \E id \in ProductIds, d \in UpdateRequests :
        IF FindByIDErr(rows, id) # ErrNone THEN Leave(s)
        ELSE LET loaded == FindByID(rows, id)
                 product == UpdateDetails(loaded, d[1], d[2], d[3], now)
             IN  Enter(s, "update", Some(loaded), product,
                       UpdatePlan("update", product, GenerateID))

CallActivate(s) ==
    /\ inflight[s] = Nil
    /\ \E id \in ProductIds :
        IF FindByIDErr(rows, id) # ErrNone THEN Leave(s)
        ELSE LET loaded == FindByID(rows, id)
                 product == Activate(loaded, now)
             IN  Enter(s, "activate", Some(loaded), product,
                       UpdatePlan("activate", product, GenerateID))

CallDeactivate(s) ==
    /\ inflight[s] = Nil
    /\ \E id \in ProductIds :
        IF FindByIDErr(rows, id) # ErrNone THEN Leave(s)
        ELSE LET loaded == FindByID(rows, id)
                 product == Deactivate(loaded, now)
             IN  Enter(s, "deactivate", Some(loaded), product,
                       UpdatePlan("deactivate", product, GenerateID))

CallArchive(s) ==
    /\ inflight[s] = Nil
    /\ \E id \in ProductIds :
        IF FindByIDErr(rows, id) # ErrNone THEN Leave(s)
        ELSE LET loaded == FindByID(rows, id)
                 product == Archive(loaded, now)
             IN  Enter(s, "archive", Some(loaded), product,
                       ArchivePlan(product))

CallApplyDiscount(s) ==
    /\ inflight[s] = Nil
    /\ \E id \in ProductIds, d \in DiscountRequests :
        IF \/ FindByIDErr(rows, id) # ErrNone
           \/ d[2] = 0
           \/ NewDiscountErr(NewRat(d[1], d[2]), d[3], d[4]) # ErrNone
        THEN Leave(s)
        ELSE LET loaded == FindByID(rows, id)
                 discount == Some(NewDiscount(NewRat(d[1], d[2]), d[3],
                                              d[4]))
                 product == ApplyDiscount(loaded, discount, now)
             IN  IF ApplyDiscountErr(loaded, discount, now) # ErrNone
                 THEN Leave(s)
                 ELSE Enter(s, "apply_discount", Some(loaded), product,
                            UpdatePlan("apply_discount", product,
                                       GenerateID))

CallRemoveDiscount(s) ==
    /\ inflight[s] = Nil
    /\ \E id \in ProductIds :
        IF FindByIDErr(rows, id) # ErrNone THEN Leave(s)
        ELSE LET loaded == FindByID(rows, id)
                 product == RemoveDiscount(loaded, now)
             IN  Enter(s, "remove_discount", Some(loaded), product,
                       UpdatePlan("remove_discount", product, GenerateID))

\* A faulty commit: the row mutations of the batch become visible first,
\* its outbox inserts in a later step.
CommitCallRowsFirst(s) ==
    /\ IsSome(inflight[s])
    /\ \E ok \in BOOLEAN :
        LET call == Get(inflight[s])
            applied == ok /\ CanApply(call.plan, rows)
            rest == SelectSeq(call.plan,
                             LAMBDA m : m.table = OutboxTable)
        IN  /\ Len(ApplyOutbox(call.plan, outbox)) <= MaxOutbox
            /\ rows' = IF applied THEN ApplyRows(call.plan, rows) ELSE rows
            /\ outbox' = IF applied /\ rest = call.plan
                         THEN ApplyOutbox(call.plan, outbox) ELSE outbox
            /\ inflight' =
                [inflight EXCEPT
                    ![s] = IF applied /\ rest # <<>> /\ rest # call.plan
                           THEN Some([call EXCEPT !.plan = rest])
                           ELSE Nil]
            /\ UNCHANGED <<now, p, result>>

\* committer.Apply and the return of Execute: the batch is applied as a
\* whole or not at all (the store may fail any commit), and the call ends.
CommitCall(s) ==
    /\ IsSome(inflight[s])
    /\ \E ok \in BOOLEAN :
        LET call == Get(inflight[s])
            applied == ok /\ CanApply(call.plan, rows)
        IN  /\ Len(ApplyOutbox(call.plan, outbox)) <= MaxOutbox
            /\ rows' = IF applied THEN ApplyRows(call.plan, rows) ELSE rows
            /\ outbox' = IF applied THEN ApplyOutbox(call.plan, outbox)
                         ELSE outbox
            /\ inflight' = [inflight EXCEPT ![s] = Nil]
            /\ UNCHANGED <<now, p, result>>

ConcurrentNext ==
    \/ \E s \in Callers : CallCreate(s)
    \/ \E s \in Callers : CallUpdate(s)
    \/ \E s \in Callers : CallActivate(s)
    \/ \E s \in Callers : CallDeactivate(s)
    \/ \E s \in Callers : CallArchive(s)
    \/ \E s \in Callers : CallApplyDiscount(s)
    \/ \E s \in Callers : CallRemoveDiscount(s)
    \/ \E s \in Callers : CommitCall(s)

ConcurrentSpec == Init /\ [][ConcurrentNext]_vars

\* ------------------------------------------------------------------------
\* The query side: ReadModel.ListActiveProducts and the list query that
\* follows its page tokens. The products table is any table of rows as
\* create inserts them, each Active or Inactive, in category "a" or "b".
\* ------------------------------------------------------------------------
DefaultPageSize == 50
MaxPageSize == 1000

\* base64.StdEncoding of a product id, and its decoding; "" is <<>>.
EncodeToString(id) == <<"base64", id>>
DecodeStringOk(token) == Len(token) = 2 /\ token[1] = "base64"
DecodeString(token) == token[2]

\* ORDER BY product_id over a set of ids.
RECURSIVE OrderByProductID(_)
OrderByProductID(ids) ==
    IF ids = {} THEN <<>>
    ELSE LET least == CHOOSE i \in ids : \A j \in ids : i <= j
         IN  <<least>> \o OrderByProductID(ids \ {least})

\* The first n elements of a sequence (LIMIT n).
Limit(s, n) == SubSeq(s, 1, IF Len(s) < n THEN Len(s) ELSE n)

\* ReadModel.ListActiveProducts: the records of one page and the token of
\* the next one. The query fetches pageSize + 1 rows; the loop keeps the
\* first pageSize and takes the id of the row after them as lastID.
ListActiveProducts(rs, category, pageSize, pageToken) ==
    LET size == IF pageSize <= 0 THEN DefaultPageSize
                ELSE IF pageSize > MaxPageSize THEN MaxPageSize
                ELSE pageSize
        selected ==
            {id \in DOMAIN rs :
                /\ IsSome(rs[id])
                /\ Get(rs[id]).status = "active"
                /\ (IsSome(category) /\ Get(category) # "") =>
                    Get(rs[id]).category = Get(category)
                /\ (pageToken # <<>> /\ DecodeStringOk(pageToken)) =>
                    id > DecodeString(pageToken)}
        fetched == Limit(OrderByProductID(selected), size + 1)
        records == Limit(fetched, size)
    IN  [records |-> [i \in 1..Len(records) |-> Get(rs[records[i]])],
         nextToken |-> IF Len(fetched) > size
                       THEN EncodeToString(fetched[size + 1])
                       ELSE <<>>]

\* listproducts.Query.Execute: the ids of the items of the page (every
\* stored row has a base price, so no item is skipped) and the next token.
ListExecute(rs, category, pageSize, pageToken) ==
    LET page == ListActiveProducts(rs, category, pageSize, pageToken)
    IN  [items |-> [i \in 1..Len(page.records) |->
                        page.records[i].product_id],
         nextToken |-> page.nextToken]

\* The tables the list query runs against.
StoredRow(id, category, status) ==
    [RepoInsertMut(NewProduct(id, "a", "a", category,
                              NewMoneyFromFraction(2, 4), id)).cols
        EXCEPT !.status = status]
Tables ==
    [ProductIds ->
        {Nil} \cup
        {Some(r) : r \in
            UNION {{[StoredRow(0, c, s) EXCEPT !.product_id = id,
                                               !.created_at = id,
                                               !.updated_at = id] :
                        id \in ProductIds} :
                    c \in {"a", "b"},
                    s \in {ProductStatusActive, ProductStatusInactive}}}]

\* What the caller of the list query holds: the filter and page size it
\* asks with, the token of the next page, the items received so far, and
\* the number of items of each page.
Listing(category, pageSize, token, items, pages) ==
    [op |-> "list", category |-> category, pageSize |-> pageSize,
     token |-> token, items |-> items, pages |-> pages]

ListInit ==
    /\ rows \in {tb \in Tables :
                    \A id \in ProductIds :
                        IsSome(tb[id]) => Get(tb[id]).product_id = id}
    /\ outbox = <<>>
    /\ now = 0
    /\ p = Nil
    /\ result = NoResult
    /\ inflight = [s \in Callers |-> Nil]

\* The first request: an empty page token, with no category filter, an
\* empty one or category a, and a page size of 0 (the default), 1 or 2.
ListFirstPage ==
    /\ Idle
    /\ \E category \in {Nil, Some(""), Some("a")}, pageSize \in {0, 1, 2} :
        LET page == ListExecute(rows, category, pageSize, <<>>)
        IN  result' = Listing(category, pageSize, page.nextToken,
                              page.items, <<Len(page.items)>>)
    /\ UNCHANGED <<rows, outbox, now, p, inflight>>

\* The caller follows the token it was given.
ListNextPage ==
    /\ result.op = "list"
    /\ result.token # <<>>
    /\ LET page == ListExecute(rows, result.category, result.pageSize,
                               result.token)
       IN  result' = Listing(result.category, result.pageSize,
                             page.nextToken, result.items \o page.items,
                             Append(result.pages, Len(page.items)))
    /\ UNCHANGED <<rows, outbox, now, p, inflight>>

\* The caller is done with the listing.
ListReturn ==
    /\ result.op = "list"
    /\ result.token = <<>>
    /\ result' = NoResult
    /\ UNCHANGED <<rows, outbox, now, p, inflight>>

ListNext ==
    \/ ListFirstPage
    \/ ListNextPage
    \/ ListReturn

ListSpec == ListInit /\ [][ListNext]_vars

\* ------------------------------------------------------------------------
\* The transport side: the error a usecase returns, as Go builds it, and
\* its mapping to a gRPC status code.
\* An error value is the place that allocated it and its message; two
\* error values are equal (==) when they are the same allocation. A
\* returned error is the chain of its wrappers, outermost first; the empty
\* chain is nil.
\* ------------------------------------------------------------------------
GoError(alloc, text) == [alloc |-> alloc, text |-> text]

\* The sentinel errors of the domain package.
SentinelProductNotActive ==
    GoError("domain.ErrProductNotActive", ErrProductNotActive)
SentinelInvalidDiscountPeriod ==
    GoError("domain.ErrInvalidDiscountPeriod", ErrInvalidDiscountPeriod)

\* fmt.Errorf(format with %w, err): a new error value wrapping err.
Errorf(alloc, prefix, err) ==
    <<GoError(alloc, prefix \o ": " \o err[1].text)>> \o err

\* errors.Is: some error of the chain equals the target.
Is(err, target) == \E i \in 1..Len(err) : err[i] = target

\* The error Execute of a write usecase returns for an outcome of the
\* model.
ExecuteError(r) ==
    CASE r.err = ErrNone -> <<>>
      [] r.err = ErrNotFound ->
            \* ProductRepo.FindByID makes a new error without a cause
            Errorf(r.op, "product not found",
                   <<GoError("ProductRepo.FindByID", ErrNotFound)>>)
      [] r.err = ErrProductNotActive -> <<SentinelProductNotActive>>
      [] r.err = ErrInvalidDiscountPeriod ->
            \* from NewDiscount (no discount was built): wrapped; from
            \* Product.ApplyDiscount: returned as it is
            IF r.arg = Nil
            THEN Errorf(r.op, "invalid discount",
                        <<SentinelInvalidDiscountPeriod>>)
            ELSE <<SentinelInvalidDiscountPeriod>>
      [] r.err = ErrInvalidDiscount ->
            Errorf(r.op, "invalid discount",
                   <<GoError("domain.NewDiscount", ErrInvalidDiscount)>>)
      [] r.err = ErrInvalidDenominator ->
            Errorf(r.op, "invalid base price",
                   <<GoError("domain.NewMoneyFromFraction",
                             ErrInvalidDenominator)>>)
      [] OTHER -> <<GoError("PlanCommitter.Apply", r.err)>>

\* mapDomainErrorToGRPC: the status code of the reply. The not-found test
\* compares the chain with an error value made by errors.New on the spot.
mapDomainErrorToGRPC(err) ==
    IF err = <<>> THEN "OK"
    ELSE IF Is(err, SentinelProductNotActive) THEN "FailedPrecondition"
    ELSE IF Is(err, SentinelInvalidDiscountPeriod) THEN "InvalidArgument"
    ELSE IF Is(err, GoError("mapDomainErrorToGRPC", ErrNotFound))
    THEN "NotFound"
    ELSE "Internal"

\* The status code the handler replies with once Execute has returned.
ReplyCode == mapDomainErrorToGRPC(ExecuteError(result))

\* ------------------------------------------------------------------------
\* The priced catalogue: products are created with base prices of either
\* sign, activated and discounted, and the get query reports the effective
\* price of a stored product as of a time.
\* ------------------------------------------------------------------------
\* The discount of the record the read model returns, rebuilt by the
\* query: dropped when a column is missing, the percentage does not parse
\* or NewDiscount rejects it.
RecordDiscount(row) ==
    IF /\ RowDiscountPresent(row)
       /\ RatSetStringOk(Get(row.discount_percent))
       /\ NewDiscountErr(RatSetString(Get(row.discount_percent)),
                         Get(row.discount_start_date),
                         Get(row.discount_end_date)) = ErrNone
    THEN Some(NewDiscount(RatSetString(Get(row.discount_percent)),
                          Get(row.discount_start_date),
                          Get(row.discount_end_date)))
    ELSE Nil

\* getproduct.Query.Execute: reqNow is the as-of time of the request, Nil
\* for the zero time, which stands for the clock reading. The outcome
\* keeps the product the query rebuilt and the fraction of the DTO.
GetProductExecute(id, reqNow) ==
    LET at == IF IsSome(reqNow) THEN Get(reqNow) ELSE now
        row == Get(rows[id])
        product ==
            RehydrateProduct(row.product_id, row.name, row.description,
                             row.category,
                             NewMoneyFromFraction(row.base_price_numerator,
                                                  row.base_price_denominator),
                             RecordDiscount(row), row.status, Nil, 0, 0)
    IN  /\ p' = Nil
        /\ result' =
            IF ~IsSome(rows[id])
            THEN Result("get", reqNow, Some(id), at, ErrNotFound, Nil, Nil,
                        Nil, <<>>, FALSE)
            ELSE IF ~NewMoneyFromFractionOk(row.base_price_numerator,
                                            row.base_price_denominator)
            THEN Result("get", reqNow, Some(id), at, ErrInvalidDenominator,
                        Nil, Nil, Nil, <<>>, FALSE)
            ELSE Result("get", reqNow, Some(id), at, ErrNone,
                        Some(Fraction(EffectivePrice(product, at))), Nil,
                        Some(product), <<>>, FALSE)
        /\ UNCHANGED <<rows, outbox, now, inflight>>

\* create with a base price numerator of either sign or zero, and with a
\* zero denominator.
CreatePriced ==
    /\ Idle
    /\ \E price \in {<<2, 4>>, <<0, 1>>, <<-2, 4>>, <<2, 0>>} :
        CreateExecute("a", "a", "a", price[1], price[2])

GetProduct ==
    /\ Idle
    /\ \E id \in ProductIds, reqNow \in {Nil} \cup {Some(t) : t \in Times} :
        GetProductExecute(id, reqNow)

PriceNext ==
    \/ CreatePriced
    \/ ActivateProduct
    \/ ApplyDiscountToProduct
    \/ GetProduct
    \/ Return
    \/ Tick

PriceSpec == Init /\ [][PriceNext]_vars

\* ------------------------------------------------------------------------
\* Properties
\* ------------------------------------------------------------------------
\* The write operations that emit domain events, and the aggregate methods.
EventOps ==
    {"create", "update", "activate", "deactivate", "apply_discount",
     "remove_discount"}
AggregateMethods ==
    {"Activate", "Deactivate", "Archive", "UpdateDetails", "ApplyDiscount",
     "RemoveDiscount"}

\* Positions of a plan that write the products table / insert into the
\* outbox.
AggregateWrites(plan) ==
    {i \in 1..Len(plan) : plan[i].table = ProductsTable}
EventInserts(plan) ==
    {i \in 1..Len(plan) : plan[i].table = OutboxTable}

\* The rows of an outbox that belong to one aggregate.
EventsOf(ob, id) == SelectSeq(ob, LAMBDA e : e.aggregate_id = id)

\* C1: for create, update-details, activate, deactivate, apply-discount and
\* remove-discount, whether the commit succeeds or fails, an outbox event is
\* persisted by the operation if and only if the operation's aggregate write
\* is persisted: the batch holds an event insert exactly when it holds an
\* aggregate write, and the outbox grows exactly when a batch with an
\* aggregate write was committed; without it the product rows stay as they
\* were.
C1_Step ==
    (Idle /\ result'.op \in EventOps) =>
        LET plan == result'.plan
            writePersisted ==
                result'.committed /\ AggregateWrites(plan) # {}
        IN  /\ (AggregateWrites(plan) = {}) <=> (EventInserts(plan) = {})
            /\ (outbox' # outbox) <=> writePersisted
            /\ ~writePersisted => rows' = rows
C1_EventIffAggregateWrite == [][C1_Step]_vars

\* C1 witness: a remove-discount whose batch, holding the aggregate update
\* and the event insert, was committed.
C1_Witness ==
    /\ result.op = "remove_discount"
    /\ result.committed
    /\ AggregateWrites(result.plan) # {}
    /\ EventInserts(result.plan) # {}

\* C2: when the commit of any write operation fails, the product rows and
\* the outbox are exactly what they were before the operation.
C2_Step ==
    (Idle /\ result'.err = ErrCommitFailed) =>
        rows' = rows /\ outbox' = outbox
C2_FailedCommitLeavesStore == [][C2_Step]_vars

\* C2 witness: a failed commit of a batch that held an aggregate write and
\* an event insert.
C2_Witness ==
    /\ result.err = ErrCommitFailed
    /\ AggregateWrites(result.plan) # {}
    /\ EventInserts(result.plan) # {}

\* C3: when the commit fails the aggregate keeps the dirty flags and the
\* pending events it had before the commit and the usecase returns the
\* error; when the commit succeeds the aggregate has no pending event.
C3_CommitOutcomeOnAggregate ==
    /\ (result.op # "none" /\ IsSome(result.mutated) /\ result.plan # <<>>
            /\ ~result.committed)
        => result.err = ErrCommitFailed
    /\ result.err = ErrCommitFailed =>
        /\ IsSome(p)
        /\ Get(p).changes = Get(result.mutated).changes
        /\ Get(p).events = Get(result.mutated).events
    /\ (result.op # "none" /\ result.committed) =>
        /\ result.err = ErrNone
        /\ Get(p).events = <<>>

\* C3 witness: a failed commit that leaves an aggregate with pending events
\* and dirty flags.
C3_Witness ==
    /\ result.err = ErrCommitFailed
    /\ Get(p).events # <<>>
    /\ Get(p).changes # {}

\* C4: once a product is Archived, none of Activate, Deactivate, Archive,
\* UpdateDetails, ApplyDiscount, RemoveDiscount changes an attribute,
\* appends an event or marks a field dirty.
C4_ArchivedIsImmutable ==
    (/\ result.op \in AggregateMethods
     /\ IsSome(result.before)
     /\ Get(result.before).status = ProductStatusArchived)
        => p = result.before

\* C5: on an Archived product Activate and Deactivate return without error
\* and ApplyDiscount fails with ProductNotActive; status, discount,
\* updatedAt, pending events and dirty set are those before the call.
C5_ArchivedRejectsTransitions ==
    (/\ result.op \in {"Activate", "Deactivate", "ApplyDiscount"}
     /\ IsSome(result.before)
     /\ Get(result.before).status = ProductStatusArchived)
        => /\ Get(p).status = Get(result.before).status
           /\ Get(p).discount = Get(result.before).discount
           /\ Get(p).updatedAt = Get(result.before).updatedAt
           /\ Get(p).events = Get(result.before).events
           /\ Get(p).changes = Get(result.before).changes
           /\ result.err = IF result.op = "ApplyDiscount"
                           THEN ErrProductNotActive ELSE ErrNone

\* C5 witness: ApplyDiscount with a discount valid at the time of the call
\* was refused on an Archived product.
C5_Witness ==
    /\ result.op = "ApplyDiscount"
    /\ IsSome(result.before)
    /\ Get(result.before).status = ProductStatusArchived
    /\ IsValidAt(result.arg, result.at)

\* C6: Archive on an Inactive or Active product sets status Archived and
\* archivedAt to the time supplied; on an Archived product it leaves
\* archivedAt, updatedAt, the dirty set and the pending events as they were;
\* and no call changes an archivedAt that is set.
C6_ArchivedAtSetOnce ==
    IsSome(result.before) =>
        /\ result.op = "Archive" =>
            IF Get(result.before).status # ProductStatusArchived
            THEN /\ Get(p).status = ProductStatusArchived
                 /\ Get(p).archivedAt = Some(result.at)
            ELSE /\ Get(p).archivedAt = Get(result.before).archivedAt
                 /\ Get(p).updatedAt = Get(result.before).updatedAt
                 /\ Get(p).changes = Get(result.before).changes
                 /\ Get(p).events = Get(result.before).events
        /\ IsSome(Get(result.before).archivedAt) =>
            Get(p).archivedAt = Get(result.before).archivedAt

\* C6 witness: Archive was called on an Archived product at a time other
\* than its archivedAt.
C6_Witness ==
    /\ result.op = "Archive"
    /\ IsSome(result.before)
    /\ Get(result.before).status = ProductStatusArchived
    /\ Get(result.before).archivedAt # Some(result.at)

\* C7: the archive operation emits no domain event: its batch holds at most
\* the aggregate update of status, archived_at and updated_at, the
\* aggregate has no pending event and the outbox is the same before and
\* after.
C7_Step ==
    (Idle /\ result'.op = "archive") =>
        /\ outbox' = outbox
        /\ Len(result'.plan) <= 1
        /\ \A i \in 1..Len(result'.plan) :
            /\ result'.plan[i].table = ProductsTable
            /\ result'.plan[i].kind = "update"
            /\ DOMAIN result'.plan[i].cols =
                    {"status", "archived_at", "updated_at"}
        /\ IsSome(result'.mutated) => Get(result'.mutated).events = <<>>
C7_ArchiveEmitsNoEvent == [][C7_Step]_vars

\* C7 witness: an archive committed its aggregate update while the outbox
\* held events.
C7_Witness ==
    /\ result.op = "archive"
    /\ result.committed
    /\ Len(result.plan) = 1
    /\ outbox # <<>>

\* C8: status changes only Inactive->Active by Activate, Active->Inactive
\* by Deactivate and Inactive|Active->Archived by Archive; Activate (resp.
\* Deactivate) on an Inactive (resp. Active) product appends exactly one
\* Activated (resp. Deactivated) event, marks status dirty and sets
\* updatedAt to the time supplied, and otherwise changes nothing.
Transition(agg, before, from, to, type, at) ==
    IF before.status = from
    THEN /\ agg.status = to
         /\ agg.events = Append(before.events,
                                DomainEvent(type, at, before.id))
         /\ agg.changes = before.changes \cup {FieldStatus}
         /\ agg.updatedAt = at
    ELSE agg = before

C8_StatusTransitions ==
    (IsSome(result.before) /\ IsSome(p)) =>
        LET before == Get(result.before)
            agg == Get(p)
        IN  /\ agg.status # before.status =>
                \/ /\ result.op = "Activate"
                   /\ before.status = ProductStatusInactive
                   /\ agg.status = ProductStatusActive
                \/ /\ result.op = "Deactivate"
                   /\ before.status = ProductStatusActive
                   /\ agg.status = ProductStatusInactive
                \/ /\ result.op = "Archive"
                   /\ before.status # ProductStatusArchived
                   /\ agg.status = ProductStatusArchived
            /\ result.op = "Activate" =>
                Transition(agg, before, ProductStatusInactive,
                           ProductStatusActive, "ProductActivatedEvent",
                           result.at)
            /\ result.op = "Deactivate" =>
                Transition(agg, before, ProductStatusActive,
                           ProductStatusInactive, "ProductDeactivatedEvent",
                           result.at)

\* C8 witness: a fresh product was activated and then deactivated and is
\* Inactive again, holding the Created, Activated and Deactivated events.
C8_Witness ==
    /\ result.op = "Deactivate"
    /\ IsSome(p)
    /\ Get(p).status = ProductStatusInactive
    /\ Len(Get(p).events) = 3
    /\ Get(p).events[1].type = "ProductCreatedEvent"
    /\ Get(p).events[2].type = "ProductActivatedEvent"
    /\ Get(p).events[3].type = "ProductDeactivatedEvent"

\* C9: a successful create leaves a product row with status Inactive, no
\* discount and no archivedAt, and exactly one outbox event for the returned
\* id, of type product.created and status pending; before the commit the
\* new aggregate held exactly one pending event, the Created event.
C9_CreateResult ==
    (result.op = "create" /\ result.err = ErrNone) =>
        LET id == Get(result.id)
            new == Get(result.mutated)
        IN  /\ IsSome(rows[id])
            /\ Get(rows[id]).product_id = id
            /\ Get(rows[id]).status = ProductStatusInactive
            /\ ~IsSome(Get(rows[id]).discount_percent)
            /\ ~IsSome(Get(rows[id]).discount_start_date)
            /\ ~IsSome(Get(rows[id]).discount_end_date)
            /\ ~IsSome(Get(rows[id]).archived_at)
            /\ Len(EventsOf(outbox, id)) = 1
            /\ EventsOf(outbox, id)[1].event_type = "product.created"
            /\ EventsOf(outbox, id)[1].status = "pending"
            /\ new.id = id
            /\ new.status = ProductStatusInactive
            /\ ~IsSome(new.discount)
            /\ ~IsSome(new.archivedAt)
            /\ Len(new.events) = 1
            /\ new.events[1].type = "ProductCreatedEvent"

\* C9 witness: a second product was created while the outbox held the
\* events of another one.
C9_Witness ==
    /\ result.op = "create"
    /\ result.err = ErrNone
    /\ Len(outbox) > Len(EventsOf(outbox, Get(result.id)))

\* C10: ApplyDiscount fails with ProductNotActive whenever the status is not
\* Active, whatever the discount, and otherwise with InvalidDiscountPeriod
\* when the discount is absent or not valid at the time supplied; after
\* either failure the aggregate is as loaded (discount, updatedAt, pending
\* events, dirty set) and the usecase has committed nothing.
C10_Step ==
    (Idle /\ result'.op = "apply_discount") =>
        /\ IsSome(result'.arg) =>
            LET loaded == Get(result'.before)
                d == Get(result'.arg)
                valid == d.startAt <= result'.at /\ result'.at <= d.endAt
            IN  result'.err =
                    IF loaded.status # ProductStatusActive
                    THEN ErrProductNotActive
                    ELSE IF ~valid THEN ErrInvalidDiscountPeriod
                    ELSE IF result'.committed THEN ErrNone
                    ELSE ErrCommitFailed
        /\ result'.err \in {ErrProductNotActive, ErrInvalidDiscountPeriod} =>
            /\ p' = result'.before
            /\ result'.mutated = result'.before
            /\ result'.plan = <<>>
            /\ ~result'.committed
            /\ rows' = rows
            /\ outbox' = outbox
InvertedWindowRequest(r) ==
    /\ r.op = "apply_discount"
    /\ IsSome(r.before)
    /\ Get(r.req)[4] < Get(r.req)[3]
PercentageInRange(r) ==
    /\ Get(r.req)[2] # 0
    /\ Get(r.req)[1] * Get(r.req)[2] >= 0
    /\ Abs(Get(r.req)[1]) <= Abs(Get(r.req)[2])

\* C11 (as stated): the apply-discount operation with a window whose end
\* precedes its start fails with InvalidDiscountPeriod, for an existing
\* product in any status.
C11_Original_Step ==
    (Idle /\ InvertedWindowRequest(result')) =>
        result'.err = ErrInvalidDiscountPeriod
C11_InvertedWindowAlwaysPeriodError == [][C11_Original_Step]_vars

\* C11 (amended): the apply-discount operation with a window whose end
\* precedes its start, on an existing product in any status, never calls
\* the aggregate's ApplyDiscount, leaves the loaded aggregate as it was and
\* commits no aggregate write and no event insert; the error is
\* InvalidDiscountPeriod when the requested percentage lies in [0, 1]
\* (with a non-zero denominator), and otherwise the percentage error, which
\* is checked first (or the panic of big.NewRat on a zero denominator).
C11_Step ==
    (Idle /\ InvertedWindowRequest(result')) =>
        /\ result'.err =
                IF PercentageInRange(result') THEN ErrInvalidDiscountPeriod
                ELSE IF Get(result'.req)[2] = 0 THEN ErrPanic
                ELSE ErrInvalidDiscount
        /\ ~IsSome(result'.arg)
        /\ p' = result'.before
        /\ result'.mutated = result'.before
        /\ result'.plan = <<>>
        /\ ~result'.committed
        /\ rows' = rows
        /\ outbox' = outbox
C11_InvertedWindowRejected == [][C11_Step]_vars

\* C11 witness: an Inactive product was offered a percentage of one half
\* over a window that ends before it starts and InvalidDiscountPeriod was
\* returned.
C11_Witness ==
    /\ InvertedWindowRequest(result)
    /\ PercentageInRange(result)
    /\ Get(result.before).status = ProductStatusInactive
    /\ result.err = ErrInvalidDiscountPeriod

\* The aggregate agg equals before except for the discount, updatedAt, one
\* more pending event of the given type at time at, and discount marked
\* dirty.
DiscountChanged(agg, before, discount, type, at) ==
    /\ agg.discount = discount
    /\ agg.updatedAt = at
    /\ agg.changes = before.changes \cup {FieldDiscount}
    /\ agg.events = Append(before.events, DomainEvent(type, at, before.id))
    /\ agg = [before EXCEPT !.discount = agg.discount,
                            !.updatedAt = agg.updatedAt,
                            !.changes = agg.changes,
                            !.events = agg.events]

\* C12: a product holds at most one discount; a successful ApplyDiscount
\* (possible on an Active product only) replaces the discount held, if any,
\* with the new one, marks discount dirty, sets updatedAt to the time
\* supplied and appends exactly one DiscountApplied event.
C12_ApplyDiscountReplaces ==
    /\ IsSome(p) => Len(Get(p).discount) <= 1
    /\ (result.op = "ApplyDiscount" /\ result.err = ErrNone) =>
        /\ Get(result.before).status = ProductStatusActive
        /\ IsSome(result.arg)
        /\ DiscountChanged(Get(p), Get(result.before), result.arg,
                           "DiscountAppliedEvent", result.at)

\* C12 witness: ApplyDiscount succeeded on a product that already held
\* another discount.
C12_Witness ==
    /\ result.op = "ApplyDiscount"
    /\ result.err = ErrNone
    /\ IsSome(Get(result.before).discount)
    /\ Get(result.before).discount # result.arg
    /\ Get(p).discount = result.arg

ChangedDetails(before, d) ==
    (IF d[1] # "" /\ d[1] # before.name THEN {FieldName} ELSE {})
    \cup (IF d[2] # "" /\ d[2] # before.description
          THEN {FieldDescription} ELSE {})
    \cup (IF d[3] # "" /\ d[3] # before.category
          THEN {FieldCategory} ELSE {})

\* C14: UpdateDetails changes exactly those of name, description, category
\* whose supplied value is non-empty and differs from the current one and
\* marks exactly those dirty; if at least one changed it appends exactly one
\* Updated event and sets updatedAt, otherwise it changes nothing.
C14_UpdateDetails ==
    result.op = "UpdateDetails" =>
        LET before == Get(result.before)
            agg == Get(p)
            d == Get(result.arg)
            changed == ChangedDetails(before, d)
        IN  /\ agg.name = IF FieldName \in changed THEN d[1]
                          ELSE before.name
            /\ agg.description = IF FieldDescription \in changed THEN d[2]
                                 ELSE before.description
            /\ agg.category = IF FieldCategory \in changed THEN d[3]
                              ELSE before.category
            /\ agg.changes = before.changes \cup changed
            /\ IF changed # {}
               THEN /\ agg.updatedAt = result.at
                    /\ agg.events =
                         Append(before.events,
                                DomainEvent("ProductUpdatedEvent", result.at,
                                            before.id))
               ELSE agg = before
            /\ agg = [before EXCEPT !.name = agg.name,
                                    !.description = agg.description,
                                    !.category = agg.category,
                                    !.changes = agg.changes,
                                    !.updatedAt = agg.updatedAt,
                                    !.events = agg.events]

\* C14 witness: on an aggregate with no dirty field, a request that repeats
\* the current name and supplies a new description marked only the
\* description dirty.
C14_Witness ==
    /\ result.op = "UpdateDetails"
    /\ Get(result.before).changes = {}
    /\ Get(result.arg)[1] = Get(result.before).name
    /\ Get(p).changes = {FieldDescription}
    /\ Len(Get(p).events) = Len(Get(result.before).events) + 1

\* C15: IsValidAt(t) of a discount is true if and only if
\* startAt <= t <= endAt, both bounds included; of an absent discount it is
\* false at every t.
C15_IsValidAt ==
    result.op = "IsValidAt" =>
        (result.out <=>
            /\ IsSome(result.recv)
            /\ Get(result.recv).startAt <= result.arg
            /\ result.arg <= Get(result.recv).endAt)

\* C15 witness: a discount whose window spans more than one instant was
\* found valid at the last instant of the window.
C15_Witness ==
    /\ result.op = "IsValidAt"
    /\ IsSome(result.recv)
    /\ Get(result.recv).startAt < Get(result.recv).endAt
    /\ result.arg = Get(result.recv).endAt
    /\ result.out

\* C16: EffectivePrice(product, at) is the base price when the product has
\* no discount or its discount is not valid at `at`, and is exactly
\* basePrice * (1 - percentage) when the discount is valid at `at` (which
\* differs from the base price unless the percentage or the base price is
\* zero); the product is not modified.
C16_EffectivePrice ==
    result.op = "EffectivePrice" =>
        LET product == result.recv
            base == product.basePrice
            price == Get(result.out)
            d == product.discount
            pc == Get(d).percentage
            valid == /\ IsSome(d)
                     /\ Get(d).startAt <= result.arg
                     /\ result.arg <= Get(d).endAt
        IN  /\ result.after = product
            /\ IF ~valid THEN price = base
               ELSE /\ price[2] > 0
                    /\ price[1] * (base[2] * pc[2])
                         = base[1] * (pc[2] - pc[1]) * price[2]
                    /\ (pc[1] # 0 /\ base[1] # 0) => price # base

\* C16 witness: a base price of 1999/100 under a discount of 20/100 valid at
\* the query time gave 1999/125.
C16_Witness ==
    /\ result.op = "EffectivePrice"
    /\ result.recv.basePrice = <<1999, 100>>
    /\ IsSome(result.recv.discount)
    /\ Get(result.recv.discount).percentage = <<1, 5>>
    /\ Get(result.recv.discount).startAt < result.arg
    /\ result.arg < Get(result.recv.discount).endAt
    /\ result.out = Some(<<1999, 125>>)

\* C17: no method changes the base price, and after RemoveDiscount the
\* effective price at every query time reads back as the numerator and
\* denominator of the base price the product had before the discount was
\* applied.
C17_RemoveRestoresBasePrice ==
    (IsSome(result.before) /\ IsSome(p)) =>
        /\ Get(p).basePrice = Get(result.before).basePrice
        /\ result.op = "RemoveDiscount" =>
            \A t \in Times :
                Fraction(EffectivePrice(Get(p), t))
                    = Fraction(Get(result.before).basePrice)

\* C17 witness: RemoveDiscount on a product whose discount was valid and
\* lowered the effective price at the time of the call.
C17_Witness ==
    /\ result.op = "RemoveDiscount"
    /\ IsValidAt(Get(result.before).discount, result.at)
    /\ EffectivePrice(Get(result.before), result.at)
            # Get(result.before).basePrice
    /\ EffectivePrice(Get(p), result.at) = Get(result.before).basePrice

\* C18: the pair read back from a Money keeps the hundredths denominator:
\* 10000/100 reads back as (10000, 100), 10000/100 multiplied by 20/100 as
\* (2000, 100), 10000/100 minus 2000/100 as (8000, 100), and the effective
\* price of a 10000/100 base price under a valid 20/100 discount as
\* (8000, 100).
C18_HundredthsKept ==
    result.op = "Fraction" =>
        LET call == result.from
        IN  /\ (call.op = "NewMoneyFromFraction"
                    /\ call.arg = <<10000, 100>>)
                => result.out = <<10000, 100>>
            /\ (call.op = "MultiplyBy"
                    /\ call.from.op = "NewMoneyFromFraction"
                    /\ call.from.arg = <<10000, 100>>
                    /\ call.arg = NewRat(20, 100))
                => result.out = <<2000, 100>>
            /\ (call.op = "Subtract"
                    /\ call.from.arg = <<10000, 100>>
                    /\ call.arg = NewMoneyFromFraction(2000, 100))
                => result.out = <<8000, 100>>
            /\ (call.op = "EffectivePrice"
                    /\ call.recv.basePrice
                         = NewMoneyFromFraction(10000, 100)
                    /\ IsSome(call.recv.discount)
                    /\ Get(call.recv.discount).percentage = NewRat(20, 100)
                    /\ IsValidAt(call.recv.discount, call.arg))
                => result.out = <<8000, 100>>

\* The greatest common divisor of a >= 0 and b > 0.
GreatestCommonDivisor(a, b) ==
    CHOOSE k \in 1..b :
        /\ a % k = 0
        /\ b % k = 0
        /\ \A j \in (k + 1)..b : a % j # 0 \/ b % j # 0

IsInverse(r2, r) == r[1] # 0 /\ r2[1] * r[1] = r2[2] * r[2]

\* C20: for every Money m and non-zero ratio r, m.MultiplyBy(r)
\* .MultiplyBy(1/r) compares equal to m, and neither multiplication
\* modifies its receiver.
C20_MultiplyRoundTrip ==
    /\ result.op = "MultiplyBy" => result.after = result.recv
    /\ (/\ result.op = "Compare"
        /\ result.from.op = "MultiplyBy"
        /\ result.from.from.op = "MultiplyBy"
        /\ IsInverse(result.from.arg, result.from.from.arg))
        => /\ result.arg = result.from.from.recv
           /\ result.from.from.after = result.from.from.recv
           /\ result.from.after = result.from.recv
           /\ result.out = 0

\* C20 witness: 1999/100 multiplied by 1/5 and then by 5 compared equal to
\* 1999/100.
C20_Witness ==
    /\ result.op = "Compare"
    /\ result.from.op = "MultiplyBy"
    /\ result.from.from.op = "MultiplyBy"
    /\ result.from.from.recv = <<1999, 100>>
    /\ result.from.from.arg = <<1, 5>>
    /\ result.from.arg = <<5, 1>>
    /\ result.out = 0

\* C21 (as stated): a write request carrying an invalid rational (a create
\* whose base-price denominator is <= 0, an apply-discount on a stored
\* product whose percentage denominator is <= 0 or whose percentage is below
\* 0 or above 1) returns an error and commits no aggregate write and no
\* event: the product rows and the outbox are as before.
InvalidRationalRequest(r) ==
    \/ r.op = "create" /\ Get(r.req)[2] <= 0
    \/ /\ r.op = "apply_discount"
       /\ IsSome(r.before)
       /\ \/ Get(r.req)[2] <= 0
          \/ ~PercentageInRange(r)
C21_Step ==
    (Idle /\ InvalidRationalRequest(result')) =>
        /\ result'.err \notin {ErrNone, ErrPanic, ErrCommitFailed}
        /\ result'.plan = <<>>
        /\ ~result'.committed
        /\ rows' = rows
        /\ outbox' = outbox
C21_InvalidRationalRejected == [][C21_Step]_vars

\* C21, the failing case: an apply-discount whose percentage is sent as
\* -1 / -2 has been committed.
C21_NegativeDenominatorCommitted ==
    /\ result.op = "apply_discount"
    /\ IsSome(result.req)
    /\ Get(result.req)[2] < 0
    /\ result.err = ErrNone
    /\ result.committed

\* A call of NewDiscount, and whether the percentage passed lies in [0, 1]
\* (a big.Rat has a positive denominator).
NewDiscountCalled(r) == r.op = "NewDiscount"
WithinZeroAndOne(percentage) ==
    0 <= percentage[1] /\ percentage[1] <= percentage[2]

\* What C22 states apart from the error of a window that ends before it
\* starts: NewDiscount succeeds exactly when 0 <= percentage <= 1 and end
\* is not before start, a percentage outside [0, 1] gets the
\* invalid-discount error, a failure returns no discount, and the discount
\* returned carries the percentage and the window passed, which satisfy
\* both bounds.
NewDiscountOutcome(r) ==
    LET percentage == r.arg[1]
        start == r.arg[2]
        end == r.arg[3]
    IN  /\ (r.out.err = ErrNone) <=>
                (WithinZeroAndOne(percentage) /\ ~(end < start))
        /\ ~WithinZeroAndOne(percentage) => r.out.err = ErrInvalidDiscount
        /\ r.out.err # ErrNone => r.out.discount = Nil
        /\ r.out.err = ErrNone =>
            /\ r.out.discount =
                   Some([percentage |-> percentage, startAt |-> start,
                         endAt |-> end])
            /\ RatCmp(Get(r.out.discount).percentage, <<0, 1>>) >= 0
            /\ RatCmp(Get(r.out.discount).percentage, <<1, 1>>) <= 0
            /\ Get(r.out.discount).startAt <= Get(r.out.discount).endAt

C23_TrackerResetAfterCommit ==
    (/\ result.op \in EventOps \cup {"archive"}
     /\ result.err = ErrNone
     /\ IsSome(p)) =>
        Get(p).changes = {}

\* The tracked fields of the aggregate and the attribute each one names.
TrackedFields ==
    {FieldName, FieldDescription, FieldCategory, FieldDiscount, FieldStatus,
     FieldArchivedAt}
FieldValue(agg, field) ==
    CASE field = FieldName -> agg.name
      [] field = FieldDescription -> agg.description
      [] field = FieldCategory -> agg.category
      [] field = FieldDiscount -> agg.discount
      [] field = FieldStatus -> agg.status
      [] field = FieldArchivedAt -> agg.archivedAt

\* The tracked fields a method call assigned: those whose value differs
\* after the call, and the discount whenever ApplyDiscount succeeded (it may
\* assign a discount equal to the one in place).
AssignedFields(before, after, call) ==
    IF after = before THEN {}
    ELSE {f \in TrackedFields : FieldValue(after, f) # FieldValue(before, f)}
         \cup (IF call.op = "ApplyDiscount" /\ call.err = ErrNone
               THEN {FieldDiscount} ELSE {})

\* C24: an aggregate rehydrated from storage has no dirty flag and no
\* pending event, and every aggregate method adds to the dirty set exactly
\* the tracked fields (name, description, category, discount, status,
\* archived_at) it assigned; so after any sequence of methods a tracked
\* field is dirty if and only if a method assigned it since the
\* rehydration.
C24_DirtyIffAssigned ==
    /\ result.op = "RehydrateProduct" =>
        Get(p).changes = {} /\ Get(p).events = <<>>
    /\ (result.op \in AggregateMethods /\ IsSome(result.before)) =>
        Get(p).changes =
            Get(result.before).changes
            \cup AssignedFields(Get(result.before), Get(p), result)

\* C24 witness: UpdateDetails was called on an aggregate that had only its
\* status dirty and no pending event other than that of the status change,
\* with the current name and a new description, and left the description
\* dirty as well but neither the name nor the category.
C24_Witness ==
    /\ result.op = "UpdateDetails"
    /\ IsSome(result.before)
    /\ Get(result.before).changes = {FieldStatus}
    /\ Len(Get(result.before).events) = 1
    /\ Get(result.arg)[1] = Get(result.before).name
    /\ Get(p).changes = {FieldStatus, FieldDescription}

\* The write operations other than create, and those of them whose domain
\* method returns no error.
UpdatingOps ==
    {"update", "activate", "deactivate", "archive", "apply_discount",
     "remove_discount"}
SilentOps == UpdatingOps \ {"apply_discount"}

\* The columns of the products table that hold a tracked field.
ColumnsOf(field) ==
    CASE field = FieldName -> {"name"}
      [] field = FieldDescription -> {"description"}
      [] field = FieldCategory -> {"category"}
      [] field = FieldStatus -> {"status"}
      [] field = FieldArchivedAt -> {"archived_at"}
      [] field = FieldDiscount ->
            {"discount_percent", "discount_start_date", "discount_end_date"}
      [] OTHER -> {}
DirtyColumns(agg) == UNION {ColumnsOf(f) : f \in agg.changes}

\* An operation r built its batch: it loaded the aggregate and its domain
\* method returned no error.
BuiltBatch(r) ==
    /\ r.op \in UpdatingOps
    /\ IsSome(r.before)
    /\ r.err \in {ErrNone, ErrCommitFailed}

\* The batch of r holds the update of the dirty columns and updated_at of
\* the aggregate's row (no update when nothing is dirty), then one insert
\* of a pending outbox event per pending domain event.
BatchOfDirtyFieldsAndEvents(r) ==
    LET agg == Get(r.mutated)
        writes == AggregateWrites(r.plan)
        inserts == EventInserts(r.plan)
    IN  /\ writes \cup inserts = 1..Len(r.plan)
        /\ writes = IF agg.changes = {} THEN {} ELSE {1}
        /\ \A i \in writes :
            /\ r.plan[i].kind = "update"
            /\ r.plan[i].key = agg.id
            /\ DOMAIN r.plan[i].cols = DirtyColumns(agg) \cup {"updated_at"}
            /\ \A c \in DOMAIN r.plan[i].cols :
                    r.plan[i].cols[c] = UpdateValue(agg, c)
        /\ Cardinality(inserts) = Len(agg.events)
        /\ \A i \in inserts :
            /\ r.plan[i].kind = "insert"
            /\ r.plan[i].cols.status = "pending"
            /\ r.plan[i].cols.aggregate_id = agg.id

\* The cases in which the domain method does nothing, and what doing
\* nothing is: the aggregate after the method is the aggregate loaded.
NoOpCase(r) ==
    /\ r.op \in SilentOps
    /\ IsSome(r.before)
    /\ \/ r.op = "activate"
          /\ Get(r.before).status = ProductStatusActive
       \/ r.op = "deactivate"
          /\ Get(r.before).status = ProductStatusInactive
       \/ r.op = "archive"
          /\ Get(r.before).status = ProductStatusArchived
       \/ r.op = "remove_discount" /\ ~IsSome(Get(r.before).discount)
       \/ r.op = "update" /\ r.mutated = r.before
NoOpLeavesStore(r) ==
    /\ r.mutated = r.before
    /\ r.plan = <<>>
    /\ r.err \in {ErrNone, ErrCommitFailed}
    /\ rows' = rows
    /\ outbox' = outbox

\* C25 (as stated): for every non-create write operation the batch holds an
\* aggregate update restricted to the dirty fields (plus updated_at) and
\* one pending event insert per pending domain event; when the domain
\* method was a no-op the batch is empty, the operation returns success and
\* neither the product row nor the outbox changes.
C25_Original_Step ==
    /\ (Idle /\ BuiltBatch(result')) => BatchOfDirtyFieldsAndEvents(result')
    /\ (Idle /\ NoOpCase(result')) =>
        NoOpLeavesStore(result') /\ result'.err = ErrNone
C25_NoOpAlwaysSucceeds == [][C25_Original_Step]_vars

\* C25 (amended): as above, except that an operation whose domain method
\* was a no-op still commits its empty batch and returns what the commit
\* returns: success when the store accepts the commit, the commit error
\* when it does not; it raises no error of its own, and neither the product
\* row nor the outbox changes either way.
C25_Step ==
    /\ (Idle /\ BuiltBatch(result')) => BatchOfDirtyFieldsAndEvents(result')
    /\ (Idle /\ NoOpCase(result')) =>
        /\ NoOpLeavesStore(result')
        /\ (result'.err = ErrNone) <=> result'.committed
C25_BatchOfDirtyFields == [][C25_Step]_vars

\* C25 witness: a remove-discount on a product without discount was
\* committed with an empty batch while the outbox held events.
C25_Witness ==
    /\ result.op = "remove_discount"
    /\ IsSome(result.before)
    /\ ~IsSome(Get(result.before).discount)
    /\ result.plan = <<>>
    /\ result.err = ErrNone
    /\ outbox # <<>>

\* The sequence s is the beginning of the sequence t.
IsPrefix(s, t) ==
    Len(s) <= Len(t) /\ \A i \in 1..Len(s) : t[i] = s[i]

\* The tag under which an event of each kind is stored in the outbox.
TagOf(type) ==
    CASE type = "ProductCreatedEvent" -> "product.created"
      [] type = "ProductUpdatedEvent" -> "product.updated"
      [] type = "ProductActivatedEvent" -> "product.activated"
      [] type = "ProductDeactivatedEvent" -> "product.deactivated"
      [] type = "DiscountAppliedEvent" -> "discount.applied"
      [] type = "DiscountRemovedEvent" -> "discount.removed"

\* C26: every aggregate method leaves the pending events it found at the
\* beginning of the list, unchanged and in the same order, adding at most
\* one event at the end, stamped with the time of the call; only
\* ClearDomainEvents empties the list; and the batch a usecase builds from
\* an aggregate before clearing its events holds the aggregate write first
\* and then one insert per pending event, in the order of the list.
C26_EventsInOrder ==
    /\ (result.op \in AggregateMethods /\ IsSome(result.before)) =>
        LET old == Get(result.before).events
            new == Get(p).events
        IN  \/ new = old
            \/ /\ Len(new) = Len(old) + 1
               /\ IsPrefix(old, new)
               /\ new[Len(new)].occurredAt = result.at
    /\ result.op = "ClearDomainEvents" =>
        LET events == Get(result.before).events
            plan == result.plan
        IN  /\ Len(plan) = 1 + Len(events)
            /\ plan[1].table = ProductsTable
            /\ \A i \in 1..Len(events) :
                /\ plan[i + 1].table = OutboxTable
                /\ plan[i + 1].cols.event_type = TagOf(events[i].type)
                /\ plan[i + 1].cols.aggregate_id = events[i].productId
            /\ Get(p).events = <<>>

\* C26 witness: a batch was built from an aggregate with three pending
\* events whose first differs in kind from the second and the third.
C26_Witness ==
    /\ result.op = "ClearDomainEvents"
    /\ Len(Get(result.before).events) = 3
    /\ Get(result.before).events[1].type # Get(result.before).events[3].type
    /\ Get(result.before).events[1].type # Get(result.before).events[2].type

\* C27: a write operation other than create, invoked with an id for which
\* no product is persisted, fails with the not-found error, loads no
\* aggregate and calls no domain method on one, builds no batch and leaves
\* the product rows and the outbox as they were.
C27_Step ==
    (/\ Idle
     /\ result'.op \in UpdatingOps
     /\ ~IsSome(rows[Get(result'.id)])) =>
        /\ result'.err = ErrNotFound
        /\ result'.before = Nil
        /\ result'.mutated = Nil
        /\ result'.arg = Nil
        /\ p' = Nil
        /\ result'.plan = <<>>
        /\ ~result'.committed
        /\ rows' = rows
        /\ outbox' = outbox
C27_NotFound == [][C27_Step]_vars

\* C27 witness: an archive of an id without a row returned not-found while
\* another product was persisted with its event in the outbox.
C27_Witness ==
    /\ result.op = "archive"
    /\ result.err = ErrNotFound
    /\ ~IsSome(rows[Get(result.id)])
    /\ \E id \in ProductIds : IsSome(rows[id])
    /\ outbox # <<>>

\* The product.created events of an outbox that carry the aggregate id id:
\* one per successful create that returned id.
CreatedEvents(ob, id) ==
    SelectSeq(ob, LAMBDA e : e.event_type = "product.created"
                             /\ e.aggregate_id = id)

\* C28: product ids are unique and never reassigned. A successful create
\* returns an id that had no row and inserts the row of that id, leaving
\* every other row alone; a create whose generated id already has a row
\* (the generator was read at the same clock instant) fails and changes
\* nothing; no id has been returned by two successful creates; and no
\* operation removes a row or changes the id it carries.
C28_Step ==
    /\ (Idle /\ result'.op = "create" /\ result'.err = ErrNone) =>
        LET id == Get(result'.id)
        IN  /\ ~IsSome(rows[id])
            /\ IsSome(rows'[id])
            /\ \A other \in ProductIds \ {id} : rows'[other] = rows[other]
    /\ (/\ Idle
        /\ result'.op = "create"
        /\ IsSome(result'.id)
        /\ IsSome(rows[Get(result'.id)])) =>
        /\ result'.err # ErrNone
        /\ rows' = rows
        /\ outbox' = outbox
    /\ \A id \in ProductIds :
        /\ Len(CreatedEvents(outbox', id)) <= 1
        /\ IsSome(rows[id]) => IsSome(rows'[id])
        /\ IsSome(rows'[id]) => Get(rows'[id]).product_id = id
IdempotentOps == {"activate", "deactivate", "archive", "remove_discount"}
MethodOf(op, agg, t) ==
    CASE op = "activate" -> Activate(agg, t)
      [] op = "deactivate" -> Deactivate(agg, t)
      [] op = "archive" -> Archive(agg, t)
      [] op = "remove_discount" -> RemoveDiscount(agg, t)
BatchOf(op, agg, t) ==
    IF op = "archive" THEN ArchivePlan(agg) ELSE UpdatePlan(op, agg, t)

\* This step calls again, with the same id, the operation whose commit has
\* just failed.
IsRetry ==
    /\ result.op \in IdempotentOps
    /\ result.err = ErrCommitFailed
    /\ result'.op = result.op
    /\ result'.id = result.id

\* C29: Activate, Deactivate, Archive and RemoveDiscount are idempotent
\* under retry. An attempt whose commit fails leaves the product rows and
\* the outbox as they were; the retry loads the same aggregate, builds the
\* same batch and, when its commit succeeds, persists exactly what the
\* failed attempt would have persisted; a successful attempt persists at
\* most one event; and after a success the operation, run again at any
\* time, is a no-op on the stored product and its batch is empty, so it
\* changes nothing and persists no further event.
C29_Step ==
    /\ ((Idle \/ IsRetry)
        /\ result'.op \in IdempotentOps
        /\ IsSome(result'.before)) =>
        LET op == result'.op
            id == Get(result'.id)
        IN  /\ result'.err \in {ErrNone, ErrCommitFailed}
            /\ result'.err = ErrCommitFailed =>
                rows' = rows /\ outbox' = outbox
            /\ result'.err = ErrNone =>
                LET stored == ToDomain(Get(rows'[id]))
                IN  /\ Len(outbox') <= Len(outbox) + 1
                    /\ \A t \in Times : MethodOf(op, stored, t) = stored
                    /\ BatchOf(op, stored, now) = <<>>
    /\ IsRetry =>
        /\ result'.before = result.before
        /\ result'.mutated = result.mutated
        /\ result'.plan = result.plan
        /\ result'.err = ErrNone =>
            /\ rows' = ApplyRows(result.plan, rows)
            /\ outbox' = ApplyOutbox(result.plan, outbox)
C29_IdempotentUnderRetry == [][C29_Step]_vars

\* C29 witness: the commit of a deactivate of an Active product failed, with
\* a batch holding the aggregate update and the event insert; the caller
\* may now retry.
C29_Witness ==
    /\ result.op = "deactivate"
    /\ result.err = ErrCommitFailed
    /\ Len(result.plan) = 2
    /\ Get(rows[Get(result.id)]).status = ProductStatusActive
    /\ outbox # <<>>

\* The batch the Execute call of a caller built: the aggregate write
\* followed by the event inserts.
BuiltPlan(call) ==
    CASE call.op = "create" -> InsertPlan("create", call.product, now)
      [] call.op = "archive" -> ArchivePlan(call.product)
      [] OTHER -> UpdatePlan(call.op, call.product, now)
HasProductsWrite(plan) == \E i \in 1..Len(plan) : plan[i].table = ProductsTable
HasOutboxInsert(plan) == \E i \in 1..Len(plan) : plan[i].table = OutboxTable

\* What a reader of the two tables can tell from one snapshot: the events
\* of a product id and its row go together.
TaggedEvents(id, tag) ==
    {i \in 1..Len(outbox) :
        outbox[i].aggregate_id = id /\ outbox[i].event_type = tag}
SnapshotWhole ==
    /\ \A i \in 1..Len(outbox) : IsSome(rows[outbox[i].aggregate_id])
    /\ \A id \in ProductIds :
        IsSome(rows[id]) =>
            /\ Cardinality(TaggedEvents(id, "product.created")) = 1
            /\ Get(rows[id]).status = ProductStatusActive =>
                TaggedEvents(id, "product.activated") # {}
            /\ RowDiscountPresent(Get(rows[id])) =>
                TaggedEvents(id, "discount.applied") # {}

\* C30: under any interleaving of the callers, the store moves only by
\* whole batches. A step that changes the product rows or the outbox is the
\* commit of one caller's call, it applies every mutation of the batch that
\* call built (the aggregate write and all of its event inserts) and ends
\* the call; an event insert never becomes visible without the aggregate
\* write of its batch, nor the aggregate write of a batch without the event
\* inserts the batch holds; and every snapshot of the two tables is whole.
C30_Step ==
    /\ (rows' # rows \/ outbox' # outbox) =>
        \E s \in Callers :
            /\ IsSome(inflight[s])
            /\ inflight'[s] = Nil
            /\ \A o \in Callers \ {s} : inflight'[o] = inflight[o]
            /\ LET call == Get(inflight[s])
               IN  /\ call.plan = BuiltPlan(call)
                   /\ rows' = ApplyRows(call.plan, rows)
                   /\ outbox' = ApplyOutbox(call.plan, outbox)
                   /\ Len(outbox') =
                        Len(outbox) + Len(DomainEvents(call.product))
                   /\ outbox' # outbox => HasProductsWrite(call.plan)
    /\ SnapshotWhole'
C30_NoPartialBatch == [][C30_Step]_vars

\* C30 witness: a caller is between its read and its commit, holding a
\* batch of an aggregate update and an event insert, while another caller's
\* batch on the same id has been committed since that read: the row it
\* loaded is no longer the stored one.
C30_Witness ==
    \E s \in Callers :
        /\ IsSome(inflight[s])
        /\ LET call == Get(inflight[s])
           IN  /\ IsSome(call.loaded)
               /\ HasProductsWrite(call.plan)
               /\ HasOutboxInsert(call.plan)
               /\ FindByID(rows, call.product.id) # Get(call.loaded)
               /\ Len(outbox) >= 2

\* The outbox rows a step adds.
NewOutboxRows == SubSeq(outbox', Len(outbox) + 1, Len(outbox'))
TransitionTags == {"product.activated", "product.deactivated", "discount.applied"}

\* C31: under interleavings of two operations on one product id, a
\* committed archive is never undone: no stored row has archived_at set
\* together with a status other than Archived, and no step persists a
\* product.activated, product.deactivated or discount.applied event for a
\* product whose stored status is Archived.
C31_Step ==
    /\ \A id \in ProductIds :
        (IsSome(rows'[id]) /\ IsSome(Get(rows'[id]).archived_at)) =>
            Get(rows'[id]).status = ProductStatusArchived
    /\ \A id \in ProductIds :
        (IsSome(rows[id]) /\ Get(rows[id]).status = ProductStatusArchived) =>
            \A i \in 1..Len(NewOutboxRows) :
                ~ /\ NewOutboxRows[i].aggregate_id = id
                  /\ NewOutboxRows[i].event_type \in TransitionTags
C31_ArchiveNeverUndone == [][C31_Step]_vars

\* C31, the state the claim excludes: a stored row with archived_at set and
\* status Inactive, and a product.deactivated event persisted last.
C31_ArchiveUndone ==
    \E id \in ProductIds :
        /\ IsSome(rows[id])
        /\ IsSome(Get(rows[id]).archived_at)
        /\ Get(rows[id]).status = ProductStatusInactive
        /\ outbox # <<>>
        /\ outbox[Len(outbox)].event_type = "product.deactivated"

\* The attributes of an aggregate that the products table stores.
Attributes(agg) ==
    [id |-> agg.id, name |-> agg.name, description |-> agg.description,
     category |-> agg.category, basePrice |-> agg.basePrice,
     discount |-> agg.discount, status |-> agg.status,
     archivedAt |-> agg.archivedAt, createdAt |-> agg.createdAt,
     updatedAt |-> agg.updatedAt]

\* C32: in a serial execution, after each successful commit the stored row
\* loads without error and the aggregate loaded from it equals the
\* in-memory aggregate of the operation attribute for attribute (id, name,
\* description, category, base price, discount, status, archivedAt,
\* createdAt, updatedAt).
C32_RowEqualsAggregate ==
    (result.committed /\ result.err = ErrNone) =>
        LET id == Get(result.id)
        IN  /\ FindByIDErr(rows, id) = ErrNone
            /\ Attributes(FindByID(rows, id)) =
                 Attributes(Get(result.mutated))

\* C32 witness: an archive of a product that holds a discount was
\* committed; the stored row carries the discount, the Archived status and
\* archived_at.
C32_Witness ==
    /\ result.op = "archive"
    /\ result.committed
    /\ result.err = ErrNone
    /\ IsSome(Get(result.mutated).discount)
    /\ IsSome(Get(result.mutated).archivedAt)
    /\ Get(result.before).status = ProductStatusActive
    /\ RowDiscountPresent(Get(rows[Get(result.id)]))

\* The event-type tags of the persisted events of one product, in order.
TagsOf(ob, id) ==
    LET own == EventsOf(ob, id)
    IN  [i \in 1..Len(own) |-> own[i].event_type]
StatusTags(ob, id) ==
    SelectSeq(TagsOf(ob, id),
              LAMBDA g : g \in {"product.activated", "product.deactivated"})

\* C33: in a serial execution the persisted events of a product mirror its
\* state transitions. A product has a row exactly when it has events; its
\* first event is product.created and no later one is; product.activated
\* and product.deactivated alternate, starting with product.activated; a
\* step persists at most one event; a successful archive persists none;
\* and a successful operation other than archive that changes the stored
\* row persists exactly one event, of that product. The per-product part
\* is looked at after every step that changes the rows or the outbox.
C33_Step ==
    /\ (outbox' # outbox \/ rows' # rows) => \A id \in ProductIds :
        LET tags == TagsOf(outbox', id)
            st == StatusTags(outbox', id)
        IN  /\ IsSome(rows'[id]) <=> tags # <<>>
            /\ tags # <<>> => tags[1] = "product.created"
            /\ \A i \in 2..Len(tags) : tags[i] # "product.created"
            /\ \A i \in 1..Len(st) :
                st[i] = IF i % 2 = 1 THEN "product.activated"
                        ELSE "product.deactivated"
    /\ Len(outbox') <= Len(outbox) + 1
    /\ SubSeq(outbox', 1, Len(outbox)) = outbox
    /\ (rows' # rows /\ result'.op = "archive") => outbox' = outbox
    /\ (rows' # rows /\ result'.op # "archive") =>
        /\ Len(outbox') = Len(outbox) + 1
        /\ outbox'[Len(outbox')].aggregate_id = Get(result'.id)
C33_EventsMirrorTransitions == [][C33_Step]_vars

\* C33 witness: a deactivate was committed on a product whose persisted
\* events are now product.created, product.activated, product.deactivated.
C33_Witness ==
    /\ result.op = "deactivate"
    /\ result.committed
    /\ TagsOf(outbox, Get(result.id)) =
        <<"product.created", "product.activated", "product.deactivated">>

\* The tag of the one event kind each event-emitting operation produces.
OwnTag(op) ==
    CASE op = "create" -> "product.created"
      [] op = "update" -> "product.updated"
      [] op = "activate" -> "product.activated"
      [] op = "deactivate" -> "product.deactivated"
      [] op = "apply_discount" -> "discount.applied"
      [] op = "remove_discount" -> "discount.removed"
      [] OTHER -> "unknown"

\* C34: no persisted outbox event carries the tag "unknown". Every pending
\* event a usecase enriches is of the kind its eventType recognises, so
\* every row a step adds to the outbox carries the tag of the operation's
\* own kind, the status pending, and as aggregate id (and payload product
\* id) the id of the product the operation wrote; and every row of the
\* outbox has a known tag, status pending and the id of a stored product.
C34_Step ==
    /\ \A i \in 1..Len(NewOutboxRows) :
        /\ result'.op \in EventOps
        /\ NewOutboxRows[i].event_type = OwnTag(result'.op)
        /\ NewOutboxRows[i].aggregate_id = Get(result'.id)
        /\ NewOutboxRows[i].aggregate_id = Get(result'.mutated).id
        /\ NewOutboxRows[i].payload.ProductID = Get(result'.id)
    /\ \A i \in 1..Len(outbox') :
        /\ outbox'[i].event_type # "unknown"
        /\ outbox'[i].event_type \in {OwnTag(op) : op \in EventOps}
        /\ outbox'[i].status = "pending"
        /\ IsSome(rows'[outbox'[i].aggregate_id])
C34_NoUnknownEvent == [][C34_Step]_vars

\* C34 witness: a remove-discount was committed and the outbox holds four
\* events of four kinds, the last one discount.removed.
C34_Witness ==
    /\ result.op = "remove_discount"
    /\ result.committed
    /\ Len(outbox) = 4
    /\ Cardinality({outbox[i].event_type : i \in 1..4}) = 4
    /\ outbox[4].event_type = "discount.removed"

\* C35: an aggregate built by NewProduct and changed only through its
\* methods has archivedAt set if and only if its status is Archived, in
\* every state: after every call, and before it.
C35_ArchivedAtIffArchived ==
    /\ IsSome(p) =>
        (IsSome(Get(p).archivedAt) <=>
            Get(p).status = ProductStatusArchived)
    /\ IsSome(result.before) =>
        (IsSome(Get(result.before).archivedAt) <=>
            Get(result.before).status = ProductStatusArchived)

\* C35 witness: Activate was called on an Archived product, which still is
\* Archived with archivedAt set.
C35_Witness ==
    /\ result.op = "Activate"
    /\ IsSome(result.before)
    /\ Get(result.before).status = ProductStatusArchived
    /\ Get(p).status = ProductStatusArchived
    /\ IsSome(Get(p).archivedAt)

\* The columns no operation writes after the insert, and the columns the
\* status operations leave alone.
FixedColumns ==
    {"product_id", "base_price_numerator", "base_price_denominator",
     "created_at"}
DetailColumns ==
    {"name", "description", "category", "discount_percent",
     "discount_start_date", "discount_end_date"}
StatusOps == {"activate", "deactivate", "archive"}

\* C36: no operation changes a product's id, base price or createdAt after
\* creation, in the aggregate it loaded or in the stored row, and no row is
\* ever removed; activate, deactivate and archive also leave name,
\* description, category and discount as they were, in the aggregate and in
\* the stored row.
C36_Step ==
    /\ \A id \in ProductIds :
        IsSome(rows[id]) =>
            /\ IsSome(rows'[id])
            /\ \A c \in FixedColumns : Get(rows'[id])[c] = Get(rows[id])[c]
            /\ result'.op \in StatusOps =>
                \A c \in DetailColumns :
                    Get(rows'[id])[c] = Get(rows[id])[c]
    /\ (IsSome(result'.before) /\ IsSome(result'.mutated)) =>
        LET before == Get(result'.before)
            after == Get(result'.mutated)
        IN  /\ after.id = before.id
            /\ after.basePrice = before.basePrice
            /\ after.createdAt = before.createdAt
            /\ result'.op \in StatusOps =>
                /\ after.name = before.name
                /\ after.description = before.description
                /\ after.category = before.category
                /\ after.discount = before.discount
C36_FrameOfOperations == [][C36_Step]_vars

\* C36 witness: a deactivate was committed on a product that holds a
\* discount; the stored row is Inactive and still carries the discount.
C36_Witness ==
    /\ result.op = "deactivate"
    /\ result.committed
    /\ Get(result.before).status = ProductStatusActive
    /\ Get(rows[Get(result.id)]).status = ProductStatusInactive
    /\ RowDiscountPresent(Get(rows[Get(result.id)]))

\* The active products of the table that match a category filter.
ActiveMatching(category) ==
    {id \in ProductIds :
        /\ IsSome(rows[id])
        /\ Get(rows[id]).status = ProductStatusActive
        /\ (IsSome(category) /\ Get(category) # "") =>
            Get(rows[id]).category = Get(category)}
EffectivePageSize(n) ==
    IF n <= 0 THEN DefaultPageSize
    ELSE IF n > MaxPageSize THEN MaxPageSize ELSE n

\* C37: cursor pagination of the active-product listing is complete and
\* duplicate-free. No page holds more than pageSize items; the items
\* received are in ascending product-id order without repetition and are
\* active products matching the filter; and once the next-page token is
\* empty, every active product matching the filter has been received.
C37_PaginationComplete ==
    result.op = "list" =>
        /\ \A i \in 1..Len(result.pages) :
            result.pages[i] <= EffectivePageSize(result.pageSize)
        /\ \A i \in 1..Len(result.items) :
            result.items[i] \in ActiveMatching(result.category)
        /\ \A i, j \in 1..Len(result.items) :
            i < j => result.items[i] < result.items[j]
        /\ result.token = <<>> =>
            result.items = OrderByProductID(ActiveMatching(result.category))

\* C37, the part that holds: pages of at most pageSize items, in ascending
\* product-id order without repetition, all active and matching the filter.
C37_PagesSoundAndOrdered ==
    result.op = "list" =>
        /\ \A i \in 1..Len(result.pages) :
            result.pages[i] <= EffectivePageSize(result.pageSize)
        /\ \A i \in 1..Len(result.items) :
            result.items[i] \in ActiveMatching(result.category)
        /\ \A i, j \in 1..Len(result.items) :
            i < j => result.items[i] < result.items[j]

\* C37, a listing that ended with an active product missing.
C37_ProductSkipped ==
    /\ result.op = "list"
    /\ result.token = <<>>
    /\ Len(result.pages) >= 2
    /\ \E id \in ActiveMatching(result.category) :
        \A i \in 1..Len(result.items) : result.items[i] # id

\* C38: failures reach the transport caller as typed outcomes:
\* mapDomainErrorToGRPC maps ProductNotActive to FailedPrecondition,
\* InvalidDiscountPeriod to InvalidArgument and a product-not-found failure
\* returned by a usecase to NotFound; only unrecognised errors map to
\* Internal.
C38_Returned ==
    /\ result.op \in {"create", "update", "activate", "deactivate",
                      "archive", "apply_discount", "remove_discount"}
    /\ result.err # ErrPanic

C38_TypedOutcomes ==
    C38_Returned =>
        /\ result.err = ErrProductNotActive
            => ReplyCode = "FailedPrecondition"
        /\ result.err = ErrInvalidDiscountPeriod
            => ReplyCode = "InvalidArgument"
        /\ result.err = ErrNotFound => ReplyCode = "NotFound"
        /\ ReplyCode = "Internal"
            => result.err \notin {ErrProductNotActive,
                                  ErrInvalidDiscountPeriod, ErrNotFound}

\* The part of C38 that holds: the two sentinel errors are mapped as
\* stated, wrapped or not, and success is no error.
C38_SentinelsMapped ==
    C38_Returned =>
        /\ result.err = ErrProductNotActive
            => ReplyCode = "FailedPrecondition"
        /\ result.err = ErrInvalidDiscountPeriod
            => ReplyCode = "InvalidArgument"
        /\ result.err = ErrNone <=> ReplyCode = "OK"
        /\ ReplyCode # "NotFound"

\* A usecase has returned product-not-found and the reply is Internal.
C38_NotFoundIsInternal ==
    /\ C38_Returned
    /\ result.err = ErrNotFound
    /\ ReplyCode = "Internal"

\* Both forms of the period error have been mapped.
C38_WrappedPeriodMapped ==
    /\ C38_Returned
    /\ result.err = ErrInvalidDiscountPeriod
    /\ result.arg = Nil
    /\ ReplyCode = "InvalidArgument"

\* C39: for every product whose base price is non-negative and every query
\* time, the effective price lies between zero and the base price
\* inclusive; and every product that create accepts has a non-negative
\* base price.
C39_Priced == result.op = "get" /\ result.err = ErrNone

C39_Within(price, base) ==
    /\ RatCmp(NewRat(0, 1), price) <= 0
    /\ RatCmp(price, base) <= 0

C39_EffectivePriceWithinBase ==
    /\ (C39_Priced /\ Get(result.mutated).basePrice[1] >= 0)
        => C39_Within(NewRat(Get(result.arg)[1], Get(result.arg)[2]),
                      Get(result.mutated).basePrice)
    /\ (result.op = "create" /\ result.err = ErrNone)
        => Get(result.mutated).basePrice[1] >= 0

\* The first part of C39 on its own, which holds: a stored product with a
\* non-negative base price is priced between zero and its base price at
\* every query time.
C39_NonNegativeWithinBase ==
    (C39_Priced /\ Get(result.mutated).basePrice[1] >= 0)
        => C39_Within(NewRat(Get(result.arg)[1], Get(result.arg)[2]),
                      Get(result.mutated).basePrice)

\* A discounted price strictly between zero and the base price was
\* reported.
C39_DiscountedBelowBase ==
    /\ C39_Priced
    /\ Get(result.mutated).basePrice = <<1, 2>>
    /\ Get(result.arg) = <<1, 4>>

\* create has committed a product with a negative base price.
C39_NegativePriceCreated ==
    /\ result.op = "create"
    /\ result.committed
    /\ Get(result.mutated).basePrice[1] < 0

\* The effective price of a product with a negative base price under a
\* valid discount is above its base price.
C39_NegativeAboveBase ==
    /\ C39_Priced
    /\ Get(result.mutated).basePrice[1] < 0
    /\ RatCmp(NewRat(Get(result.arg)[1], Get(result.arg)[2]),
              Get(result.mutated).basePrice) > 0

====
